---- MODULE Spec2Model ----
(***************************************************************************)
(* Markdown-to-DOCX plugin tool (src/md2docx/tools/md2docx.py).            *)
(*                                                                         *)
(* A text is a sequence of one-character strings; a document is the        *)
(* sequence of its lines, as content.split('\n') produces it.  The state   *)
(* machine follows one call of Md2docxTool._invoke: the parameter checks,  *)
(* MarkdownParser.parse (one action per iteration of its dispatch loop),   *)
(* DocxConverter.convert (one action per element), the serialization and   *)
(* the messages the generator yields.                                      *)
(*                                                                         *)
(* Spec follows whole tool calls; SpecParse follows parse alone, from the  *)
(* state in which convert_md_to_docx has built the parser, on longer       *)
(* documents.                                                              *)
(***************************************************************************)
EXTENDS Integers, Sequences, FiniteSets, TLC

\* ------------------------------------------------------------------ bounds
\* Longest document (in lines) parsed on its own, and longest document taken
\* through the whole tool call.
MaxLines == 4
MaxToolLines == 3
\* Longest text handed to the inline formatter on its own.
MaxText == 7
\* Longest element sequence handed to the converter on its own.
MaxElements == 3
\* Number of calls of convert_md_to_docx running on threads of their own.
NumCalls == 2
\* Longest upstream stream handed to the stream handler.
MaxChunks == 3

\* ------------------------------------------------------- text primitives
\* Characters str.strip() and the regex class \s remove or match.
Spaces == {" ", "\t"}
Digits == {"0", "1", "2", "3", "4", "5", "6", "7", "8", "9"}

IsSpace(c) == c \in Spaces

\* The backquote character (a TLA+ string cannot hold it) and the fence marker.
BT == "bq"
Fence == <<BT, BT, BT>>

RECURSIVE LStrip(_)
LStrip(s) == IF s # <<>> /\ IsSpace(Head(s)) THEN LStrip(Tail(s)) ELSE s

RECURSIVE RStrip(_)
RStrip(s) ==
    IF s # <<>> /\ IsSpace(s[Len(s)]) THEN RStrip(SubSeq(s, 1, Len(s) - 1)) ELSE s

\* str.strip()
Strip(s) == RStrip(LStrip(s))

\* str.startswith(p)
StartsWith(s, p) == Len(s) >= Len(p) /\ SubSeq(s, 1, Len(p)) = p

\* str.count(c) for a one-character c
Count(s, c) == Cardinality({k \in 1..Len(s) : s[k] = c})

\* s[n:]
DropFirst(s, n) == IF n >= Len(s) THEN <<>> ELSE SubSeq(s, n + 1, Len(s))

\* str.replace(c, '') for a one-character c
Remove(s, c) == SelectSeq(s, LAMBDA x : x # c)

\* Index of the first occurrence of c in s at or after position from, 0 if none.
RECURSIVE IndexFrom(_, _, _)
IndexFrom(s, c, from) ==
    IF from > Len(s) THEN 0
    ELSE IF s[from] = c THEN from
    ELSE IndexFrom(s, c, from + 1)

\* str.split(c) for a one-character c
RECURSIVE Split(_, _)
Split(s, c) ==
    LET k == IndexFrom(s, c, 1)
    IN  IF k = 0 THEN <<s>>
        ELSE <<SubSeq(s, 1, k - 1)>> \o Split(DropFirst(s, k), c)

\* sep.join(parts)
RECURSIVE Join(_, _)
Join(parts, sep) ==
    IF parts = <<>> THEN <<>>
    ELSE IF Len(parts) = 1 THEN parts[1]
    ELSE parts[1] \o sep \o Join(Tail(parts), sep)

\* Length of the longest prefix of s whose characters all belong to cs.
RECURSIVE PrefixLen(_, _)
PrefixLen(s, cs) ==
    IF s # <<>> /\ Head(s) \in cs THEN 1 + PrefixLen(Tail(s), cs) ELSE 0

\* The regex tail \s+(.+)$ applied to s: ok when it matches, text = group (.+).
\* \s+ is greedy and gives one character back only when nothing follows it.
SpaceThenText(s) ==
    LET w    == PrefixLen(s, Spaces)
        rest == DropFirst(s, w)
    IN  IF w >= 1 /\ rest # <<>> THEN [ok |-> TRUE, text |-> rest]
        ELSE IF w >= 2 THEN [ok |-> TRUE, text |-> <<s[w]>>]
        ELSE [ok |-> FALSE, text |-> <<>>]

\* ------------------------------------------------- MarkdownParser helpers
NoneValue == [type |-> "none"]

is_table_row(line) ==
    ("|" \in {line[k] : k \in 1..Len(line)} /\ StartsWith(Strip(line), <<"|">>))
    \/ Count(line, "|") >= 2

is_table_separator(line) ==
    LET stripped == Strip(line)
        cleaned  == Remove(Remove(Remove(Remove(stripped, "|"), "-"), ":"), " ")
    IN  IF ~is_table_row(stripped) THEN FALSE ELSE Len(cleaned) = 0

\* parse_table_row with the cells left untrimmed.
parse_table_row_untrimmed(line) ==
    LET l0 == Strip(line)
        l1 == IF StartsWith(l0, <<"|">>) THEN DropFirst(l0, 1) ELSE l0
        l2 == IF l1 # <<>> /\ l1[Len(l1)] = "|" THEN SubSeq(l1, 1, Len(l1) - 1) ELSE l1
    IN  Split(l2, "|")

parse_table_row(line) ==
    LET l0 == Strip(line)
        l1 == IF StartsWith(l0, <<"|">>) THEN DropFirst(l0, 1) ELSE l0
        l2 == IF l1 # <<>> /\ l1[Len(l1)] = "|" THEN SubSeq(l1, 1, Len(l1) - 1) ELSE l1
        cs == Split(l2, "|")
    IN  [k \in 1..Len(cs) |-> Strip(cs[k])]

\* The 0-based index just past the run of table rows that starts at index i.
RECURSIVE TableRunEnd(_, _)
TableRunEnd(lines, i) ==
    IF i < Len(lines) /\ is_table_row(lines[i + 1]) THEN TableRunEnd(lines, i + 1) ELSE i

parse_table(lines, start_idx) ==
    LET i           == TableRunEnd(lines, start_idx)
        table_lines == SubSeq(lines, start_idx + 1, i)
        data        == SelectSeq(SubSeq(table_lines, 3, Len(table_lines)),
                                 LAMBDA l : Strip(l) # <<>>)
    IN  IF Len(table_lines) < 2
        THEN [data |-> NoneValue, next |-> start_idx + 1]
        ELSE IF ~is_table_separator(table_lines[2])
        THEN [data |-> NoneValue, next |-> start_idx + 1]
        ELSE [data |-> [type    |-> "table",
                        headers |-> parse_table_row(table_lines[1]),
                        rows    |-> [k \in 1..Len(data) |-> parse_table_row(data[k])]],
              next |-> i]

is_list_item(line) ==
    LET stripped == Strip(line)
        um == IF stripped # <<>> /\ stripped[1] \in {"-", "*", "+"}
              THEN SpaceThenText(DropFirst(stripped, 1))
              ELSE [ok |-> FALSE, text |-> <<>>]
        d  == PrefixLen(stripped, Digits)
        om == IF d >= 1 /\ Len(stripped) > d /\ stripped[d + 1] = "."
              THEN SpaceThenText(DropFirst(stripped, d + 1))
              ELSE [ok |-> FALSE, text |-> <<>>]
    IN  IF um.ok THEN [is_list |-> TRUE, type |-> "unordered", content |-> um.text]
        ELSE IF om.ok THEN [is_list |-> TRUE, type |-> "ordered", content |-> om.text]
        ELSE [is_list |-> FALSE, type |-> "none", content |-> <<>>]

\* ListLoop with the look-ahead of a blank line reduced to "the next line is
\* not blank": the test that the next line is a list item is left out.
RECURSIVE ListLoop_no_item_lookahead(_, _, _, _)
ListLoop_no_item_lookahead(lines, i, list_type, list_items) ==
    IF i >= Len(lines) THEN <<i, list_type, list_items>>
    ELSE
      LET line == lines[i + 1]
          li   == is_list_item(line)
      IN  IF ~li.is_list
          THEN IF Strip(line) = <<>>
               THEN IF i + 1 >= Len(lines) \/ Strip(lines[i + 2]) = <<>>
                    THEN <<i, list_type, list_items>>
                    ELSE ListLoop_no_item_lookahead(lines, i + 1, list_type, list_items)
               ELSE <<i, list_type, list_items>>
          ELSE
            LET lt == IF list_type = "none" THEN li.type ELSE list_type
            IN  IF li.type = lt
                THEN ListLoop_no_item_lookahead(lines, i + 1, lt,
                         Append(list_items, [content |-> li.content, type |-> li.type]))
                ELSE <<i, lt, list_items>>

\* ListLoop without the test of the item's kind against the locked kind.
RECURSIVE ListLoop_any_kind(_, _, _, _)
ListLoop_any_kind(lines, i, list_type, list_items) ==
    IF i >= Len(lines) THEN <<i, list_type, list_items>>
    ELSE
      LET line == lines[i + 1]
          li   == is_list_item(line)
      IN  IF ~li.is_list
          THEN IF Strip(line) = <<>>
               THEN IF i + 1 >= Len(lines) \/ Strip(lines[i + 2]) = <<>>
                    THEN <<i, list_type, list_items>>
                    ELSE IF ~is_list_item(lines[i + 2]).is_list
                    THEN <<i, list_type, list_items>>
                    ELSE ListLoop_any_kind(lines, i + 1, list_type, list_items)
               ELSE <<i, list_type, list_items>>
          ELSE
            LET lt == IF list_type = "none" THEN li.type ELSE list_type
            IN  ListLoop_any_kind(lines, i + 1, lt,
                    Append(list_items, [content |-> li.content, type |-> li.type]))

\* The while loop of _parse_list from cursor i with the type lock and the
\* items collected so far; the value is the loop's final <<i, list_type, items>>.
RECURSIVE ListLoop(_, _, _, _)
ListLoop(lines, i, list_type, list_items) ==
    IF i >= Len(lines) THEN <<i, list_type, list_items>>
    ELSE
      LET line == lines[i + 1]
          li   == is_list_item(line)
      IN  IF ~li.is_list
          THEN IF Strip(line) = <<>>
               THEN IF i + 1 >= Len(lines) \/ Strip(lines[i + 2]) = <<>>
                    THEN <<i, list_type, list_items>>
                    ELSE IF ~is_list_item(lines[i + 2]).is_list
                    THEN <<i, list_type, list_items>>
                    ELSE ListLoop(lines, i + 1, list_type, list_items)
               ELSE <<i, list_type, list_items>>
          ELSE
            LET lt == IF list_type = "none" THEN li.type ELSE list_type
            IN  IF li.type = lt
                THEN ListLoop(lines, i + 1, lt,
                              Append(list_items, [content |-> li.content, type |-> li.type]))
                ELSE <<i, lt, list_items>>

parse_list(lines, start_idx) ==
    LET r == ListLoop(lines, start_idx, "none", <<>>)
    IN  IF r[3] = <<>>
        THEN [data |-> NoneValue, next |-> start_idx + 1]
        ELSE [data |-> [type |-> "list", list_type |-> r[2], items |-> r[3]],
              next |-> r[1]]

\* heading_match with the level counted from 0.
heading_match_level_from_0(line) ==
    LET h == PrefixLen(line, {"#"})
        m == SpaceThenText(DropFirst(line, h))
    IN  IF h >= 1 /\ h <= 6 /\ m.ok
        THEN [ok |-> TRUE, level |-> h - 1, text |-> m.text]
        ELSE [ok |-> FALSE, level |-> 0, text |-> <<>>]

\* re.match(r'^(#{1,6})\s+(.+)$', line)
heading_match(line) ==
    LET h == PrefixLen(line, {"#"})
        m == SpaceThenText(DropFirst(line, h))
    IN  IF h >= 1 /\ h <= 6 /\ m.ok
        THEN [ok |-> TRUE, level |-> h, text |-> m.text]
        ELSE [ok |-> FALSE, level |-> 0, text |-> <<>>]

\* The image marker !\[([^\]]*)\]\(([^\)]+)\) tried at position p of s (1-based):
\* ok, the two groups and the position just past the marker.
ImageAt(s, p) ==
    LET rb == IF p + 1 <= Len(s) /\ s[p] = "!" /\ s[p + 1] = "["
              THEN IndexFrom(s, "]", p + 2) ELSE 0
        rp == IF rb # 0 /\ rb + 1 <= Len(s) /\ s[rb + 1] = "("
              THEN IndexFrom(s, ")", rb + 2) ELSE 0
    IN  IF rp # 0 /\ rp > rb + 2
        THEN [ok |-> TRUE, alt |-> SubSeq(s, p + 2, rb - 1),
              url |-> SubSeq(s, rb + 2, rp - 1), end |-> rp + 1]
        ELSE [ok |-> FALSE, alt |-> <<>>, url |-> <<>>, end |-> p]

\* re.match(r'^!\[([^\]]*)\]\(([^\)]+)\)\s*$', line)
img_match(line) ==
    LET m == ImageAt(line, 1)
    IN  IF m.ok /\ Strip(DropFirst(line, m.end - 1)) = <<>>
        THEN m ELSE [ok |-> FALSE, alt |-> <<>>, url |-> <<>>, end |-> 1]

\* ------------------------------------------------------ inline formatter
\* One alternative  c{k}([^c]+)c{k}  of the emphasis pattern tried at position
\* p of s (1-based): [^c]+ runs to the first c after the opening delimiter.
DelimAt(s, p, c, k) ==
    LET open == p + k - 1 <= Len(s) /\ \A j \in p..(p + k - 1) : s[j] = c
        q    == IF open THEN IndexFrom(s, c, p + k) ELSE 0
        shut == q > p + k /\ q + k - 1 <= Len(s) /\ \A j \in q..(q + k - 1) : s[j] = c
    IN  IF shut THEN [ok |-> TRUE, content |-> SubSeq(s, p + k, q - 1), end |-> q + k]
        ELSE [ok |-> FALSE, content |-> <<>>, end |-> p]

\* A variant of the pattern's branches in which the double-asterisk branch
\* sets the italic flag.
ParserMatchAt_double_is_italic(text, p) ==
    LET a1 == DelimAt(text, p, "*", 3)
        a2 == DelimAt(text, p, "*", 2)
        a3 == DelimAt(text, p, "*", 1)
        a4 == DelimAt(text, p, "_", 2)
        a5 == DelimAt(text, p, "_", 1)
        none == [ok |-> FALSE, end |-> p, part |-> [text |-> <<>>, bold |-> FALSE, italic |-> FALSE]]
    IN  IF a1.ok THEN [ok |-> TRUE, end |-> a1.end,
                       part |-> [text |-> a1.content, bold |-> TRUE, italic |-> TRUE]]
        ELSE IF a2.ok THEN [ok |-> TRUE, end |-> a2.end,
                       part |-> [text |-> a2.content, bold |-> FALSE, italic |-> TRUE]]
        ELSE IF a3.ok THEN [ok |-> TRUE, end |-> a3.end,
                       part |-> [text |-> a3.content, bold |-> FALSE, italic |-> TRUE]]
        ELSE IF a4.ok THEN [ok |-> TRUE, end |-> a4.end,
                       part |-> [text |-> a4.content, bold |-> TRUE, italic |-> FALSE]]
        ELSE IF a5.ok THEN [ok |-> TRUE, end |-> a5.end,
                       part |-> [text |-> a5.content, bold |-> FALSE, italic |-> TRUE]]
        ELSE none

\* MarkdownParser._parse_inline_formatting: the alternatives of its pattern
\* in their written order, each with the flags of the branch that takes it.
ParserMatchAt(text, p) ==
    LET a1 == DelimAt(text, p, "*", 3)
        a2 == DelimAt(text, p, "*", 2)
        a3 == DelimAt(text, p, "*", 1)
        a4 == DelimAt(text, p, "_", 2)
        a5 == DelimAt(text, p, "_", 1)
        none == [ok |-> FALSE, end |-> p, part |-> [text |-> <<>>, bold |-> FALSE, italic |-> FALSE]]
    IN  IF a1.ok THEN [ok |-> TRUE, end |-> a1.end,
                       part |-> [text |-> a1.content, bold |-> TRUE, italic |-> TRUE]]
        ELSE IF a2.ok THEN [ok |-> TRUE, end |-> a2.end,
                       part |-> [text |-> a2.content, bold |-> TRUE, italic |-> FALSE]]
        ELSE IF a3.ok THEN [ok |-> TRUE, end |-> a3.end,
                       part |-> [text |-> a3.content, bold |-> FALSE, italic |-> TRUE]]
        ELSE IF a4.ok THEN [ok |-> TRUE, end |-> a4.end,
                       part |-> [text |-> a4.content, bold |-> TRUE, italic |-> FALSE]]
        ELSE IF a5.ok THEN [ok |-> TRUE, end |-> a5.end,
                       part |-> [text |-> a5.content, bold |-> FALSE, italic |-> TRUE]]
        ELSE none

\* A variant of the plain run that trims the text it is given.
PlainPart_trimmed(s) == [text |-> Strip(s), bold |-> FALSE, italic |-> FALSE]

PlainPart(s) == [text |-> s, bold |-> FALSE, italic |-> FALSE]

\* The finditer loop: p is the scan position (1-based), last_pos the 0-based
\* end of the previous match.
RECURSIVE ParserInlineScan(_, _, _)
ParserInlineScan(text, p, last_pos) ==
    IF p > Len(text)
    THEN IF last_pos < Len(text)
         THEN <<PlainPart(SubSeq(text, last_pos + 1, Len(text)))>> ELSE <<>>
    ELSE LET m == ParserMatchAt(text, p)
         IN  IF m.ok
             THEN (IF p - 1 > last_pos
                   THEN <<PlainPart(SubSeq(text, last_pos + 1, p - 1))>> ELSE <<>>)
                  \o <<m.part>> \o ParserInlineScan(text, m.end, m.end - 1)
             ELSE ParserInlineScan(text, p + 1, last_pos)

parse_inline_formatting(text) ==
    LET parts == ParserInlineScan(text, 1, 0)
    IN  IF parts = <<>> THEN <<PlainPart(text)>> ELSE parts

\* ------------------------------------------------------ paragraph fallback
paragraph_element(text) ==
    [type |-> "paragraph", content |-> text,
     formatted_parts |-> parse_inline_formatting(text)]

\* A variant of the paragraph loop that runs on over lines starting with '#'
\* and over fence lines.
RECURSIVE ParagraphEnd_through_headings(_, _)
ParagraphEnd_through_headings(lines, i) ==
    IF i < Len(lines) /\ Strip(lines[i + 1]) # <<>>
    THEN LET l == lines[i + 1]
         IN  IF is_table_row(l) THEN i
             ELSE IF is_list_item(l).is_list THEN i
             ELSE IF img_match(l).ok THEN i
             ELSE ParagraphEnd_through_headings(lines, i + 1)
    ELSE i

\* The 0-based index at which the paragraph loop of parse stops, from index i.
RECURSIVE ParagraphEnd(_, _)
ParagraphEnd(lines, i) ==
    IF i < Len(lines) /\ Strip(lines[i + 1]) # <<>>
    THEN LET l == lines[i + 1]
         IN  IF StartsWith(l, <<"#">>) \/ StartsWith(Strip(l), Fence)
             THEN i
             ELSE IF is_table_row(l) THEN i
             ELSE IF is_list_item(l).is_list THEN i
             ELSE IF img_match(l).ok THEN i
             ELSE ParagraphEnd(lines, i + 1)
    ELSE i

\* re.split(img_pattern, paragraph_text) and the loop over its parts: seg is
\* the 1-based start of the current text part, p the scan position.
RECURSIVE SplitImages(_, _, _)
SplitImages(text, seg, p) ==
    LET textPart(a, b) ==
            IF Strip(SubSeq(text, a, b)) # <<>>
            THEN <<paragraph_element(Strip(SubSeq(text, a, b)))>> ELSE <<>>
    IN  IF p > Len(text) THEN textPart(seg, Len(text))
        ELSE LET m == ImageAt(text, p)
             IN  IF m.ok
                 THEN textPart(seg, p - 1)
                      \o <<[type |-> "image", alt |-> m.alt, url |-> m.url]>>
                      \o SplitImages(text, m.end, m.end)
                 ELSE SplitImages(text, seg, p + 1)

\* re.search(img_pattern, paragraph_text)
HasImage(text) == \E p \in 1..Len(text) : ImageAt(text, p).ok

paragraph_elements(paragraph_lines) ==
    LET paragraph_text == Join(paragraph_lines, <<" ">>)
    IN  IF HasImage(paragraph_text)
        THEN SplitImages(paragraph_text, 1, 1)
        ELSE <<paragraph_element(paragraph_text)>>

\* ------------------------------------------------------------- the inputs
\* Lines the documents are built from: one or more for every rule of the
\* dispatch loop, and lines that two rules compete for.
BlankLine    == <<>>
TextLine     == <<"t">>
HeadingLine  == <<"#", "#", " ", "h", " ">>
HashLine     == <<"#", "x">>
PipeHeading  == <<"#", " ", "x", "|", "y", "|">>
FenceLine    == <<BT, BT, BT, " ", "p">>
BulletLine   == <<"-", " ", "a">>
NumberLine   == <<"1", ".", " ", "b">>
HeaderLine   == <<"|", "A", "|", " ", "B">>
DashLine     == <<"|", "-", "|", "-", "|">>
BulletRow    == <<"-", " ", "x", "|", "y", "|">>
ImageLine    == <<"!", "[", "a", "]", "(", "u", ")">>

LinePool ==
    {BlankLine, TextLine, HeadingLine, HashLine, PipeHeading, FenceLine,
     BulletLine, NumberLine, HeaderLine, DashLine, BulletRow, ImageLine}

\* content.split('\n') of every text of at most max lines.
DocumentsUpTo(max) == UNION {[1..n -> LinePool] : n \in 1..max}

Documents == DocumentsUpTo(MaxLines)
ToolDocuments == DocumentsUpTo(MaxToolLines)

\* The 'content' parameter: missing, not a string, or a text given by its lines
\* (the empty text is the single empty line).
Contents ==
    {[kind |-> "absent", lines |-> <<>>], [kind |-> "nonstring", lines |-> <<>>]}
    \cup {[kind |-> "text", lines |-> d] : d \in ToolDocuments}

\* The 'name' parameter: missing, or a text.
Names == {[present |-> FALSE, value |-> <<>>], [present |-> TRUE, value |-> <<"r">>]}

\* Python truthiness of tool_parameters.get('content')
Truthy(content) ==
    \/ content.kind = "nonstring"
    \/ content.kind = "text" /\ content.lines # <<BlankLine>>

DocxMime == <<"application/vnd.openxmlformats-officedocument.wordprocessingml.document">>
DocxSuffix == <<".", "d", "o", "c", "x">>

\* ---------------------------------------------------------------- the state
VARIABLES
    tool_parameters,  \* the mapping _invoke receives
    pc,               \* where the call stands
    lines,            \* MarkdownParser.lines
    i,                \* cursor of parse (0-based)
    in_code_block,    \* parse: inside an open fence
    code_lines,       \* parse: body lines of the open fence
    code_lang,        \* parse: language tag of the open fence
    elements,         \* parse: the elements emitted so far
    iterations,       \* number of iterations the dispatch loop has run
    done_elements,    \* convert: number of elements rendered
    document,         \* DocxConverter.document: the blocks appended so far
    status,           \* first component of convert_md_to_docx's result
    file_bytes,       \* second component of convert_md_to_docx's result
    pipeline_calls,   \* number of calls of convert_md_to_docx
    messages,         \* the messages _invoke has yielded
    calls,            \* concurrent calls: the running one and the suspended frames
    stream_pc,        \* where the generator of the stream handler stands
    response,         \* the upstream chunks the handler iterates over
    reference,        \* the 'reference' setting the handler is given
    chunk_index,      \* number of upstream chunks the for loop has taken
    is_reasoning_started,     \* the flag threaded through the deltas
    delta_content,            \* result of the last _wrap_thinking_by_reasoning_content
    full_assistant_content,   \* the contents accumulated for the token count
    final_chunk,      \* the chunk withheld for the end
    prompt_token,     \* prompt tokens reported upstream (0: none)
    completion_token, \* completion tokens reported upstream (0: none)
    yielded           \* the chunks the generator has yielded

vars == <<tool_parameters, pc, lines, i, in_code_block, code_lines, code_lang,
          elements, iterations, done_elements, document, status, file_bytes,
          pipeline_calls, messages, calls, stream_pc, response, reference,
          chunk_index, is_reasoning_started, delta_content, full_assistant_content,
          final_chunk, prompt_token, completion_token, yielded>>

stream_vars == <<stream_pc, response, reference, chunk_index, is_reasoning_started,
                 delta_content, full_assistant_content, final_chunk, prompt_token,
                 completion_token, yielded>>

md2docx_vars == <<tool_parameters, pc, lines, i, in_code_block, code_lines, code_lang,
                  elements, iterations, done_elements, document, status, file_bytes,
                  pipeline_calls, messages, calls>>

parser_vars == <<lines, i, in_code_block, code_lines, code_lang, elements, iterations>>

NoBytes == [present |-> FALSE, blocks |-> <<>>]

\* ------------------------------------- the stream handler: values and state
\* Texts of the stream are sequences of tokens. None, a missing attribute and
\* the empty string are all the empty sequence: the handler tests content and
\* reasoning_content for truth only (llm.py:365, 439, 449).
THINK_OPEN  == <<"<think>", "\n">>
THINK_CLOSE == <<"\n", "</think>">>

\* An upstream chunk. choices is len(chunk.choices); usage is "none" (no usage
\* object), "prompt_tokens" (the usage object of the OpenAI client, whose
\* fields are prompt_tokens and completion_tokens) or "prompt_token" (a usage
\* object that has the attributes the handler reads); the other fields are
\* those of chunk.choices[0].
Chunk(choices, usage, content, reasoning_content, finish_reason, function_call, references) ==
    [choices |-> choices, usage |-> usage, content |-> content,
     reasoning_content |-> reasoning_content, finish_reason |-> finish_reason,
     function_call |-> function_call, references |-> references]

Delta(content, reasoning_content, finish_reason) ==
    Chunk(1, "none", content, reasoning_content, finish_reason, FALSE, FALSE)

UsageChunk         == Chunk(0, "prompt_tokens", <<>>, <<>>, "none", FALSE, FALSE)
TokenChunk         == Chunk(0, "prompt_token", <<>>, <<>>, "none", FALSE, FALSE)
NoChoiceChunk      == Chunk(0, "none", <<>>, <<>>, "none", FALSE, FALSE)
ReasoningDelta     == Delta(<<>>, <<"r">>, "none")
ContentDelta       == Delta(<<"c">>, <<>>, "none")
BothDelta          == Delta(<<"b">>, <<"q">>, "none")
EmptyDelta         == Delta(<<>>, <<>>, "none")
FinishDelta        == Delta(<<>>, <<>>, "stop")
FinishContentDelta == Delta(<<"d">>, <<>>, "stop")
ReferenceDelta     == Chunk(1, "none", <<"e">>, <<>>, "none", FALSE, TRUE)
FunctionCallDelta  == Chunk(1, "none", <<>>, <<>>, "none", TRUE, FALSE)

ChunkPool ==
    {UsageChunk, TokenChunk, NoChoiceChunk, ReasoningDelta, ContentDelta, BothDelta,
     EmptyDelta, FinishDelta, FinishContentDelta, ReferenceDelta, FunctionCallDelta}

\* The upstream streams of at most MaxChunks chunks.
Responses == UNION {[1..n -> ChunkPool] : n \in 0..MaxChunks}

\* credentials['reference']: the integer 0 (written "int 0") or one of the
\* strings "0", "1", "2".
References == {"int 0", "0", "1", "2"}

\* The tokens reported by a usage object that has the attributes read.
ReportedPromptTokens == 5
ReportedCompletionTokens == 7

NoUsage == [present |-> FALSE, prompt_tokens |-> 0, completion_tokens |-> 0]

\* LLMResultChunk: the content of its message, its finish_reason, its usage.
LLMResultChunk(content, finish_reason, usage) ==
    [content |-> content, finish_reason |-> finish_reason, usage |-> usage]

\* No stream is being handled.
StreamIdle ==
    /\ stream_pc = "idle"
    /\ response = <<>>
    /\ reference = "int 0"
    /\ chunk_index = 0
    /\ is_reasoning_started = FALSE
    /\ delta_content = <<>>
    /\ full_assistant_content = <<>>
    /\ final_chunk = LLMResultChunk(<<>>, "none", NoUsage)
    /\ prompt_token = 0
    /\ completion_token = 0
    /\ yielded = <<>>

\* One call on one thread: nothing is suspended.
NoCalls == [running |-> 1, saved |-> <<>>]

Init ==
    /\ tool_parameters \in [content : Contents, name : Names]
    /\ pc = "invoke"
    /\ lines = <<>>
    /\ i = 0
    /\ in_code_block = FALSE
    /\ code_lines = <<>>
    /\ code_lang = <<>>
    /\ elements = <<>>
    /\ iterations = 0
    /\ done_elements = 0
    /\ document = <<>>
    /\ status = -1
    /\ file_bytes = NoBytes
    /\ pipeline_calls = 0
    /\ messages = <<>>
    /\ calls = NoCalls
    /\ StreamIdle

\* The locals of convert_md_to_docx are gone once it has returned.
DropLocals ==
    /\ lines' = <<>>
    /\ i' = 0
    /\ in_code_block' = FALSE
    /\ code_lines' = <<>>
    /\ code_lang' = <<>>
    /\ elements' = <<>>
    /\ iterations' = 0
    /\ done_elements' = 0
    /\ document' = <<>>

\* The except clause returning what had been rendered so far with the
\* failure flag.
convert_failed_with_partial_bytes ==
    /\ status' = 0
    /\ file_bytes' = [present |-> TRUE, blocks |-> document]
    /\ pc' = "returned"
    /\ DropLocals

\* The except clause of convert_md_to_docx.
convert_failed ==
    /\ status' = 0
    /\ file_bytes' = NoBytes
    /\ pc' = "returned"
    /\ DropLocals

TextMessage(text) == [type |-> "text", text |-> text]

\* ------------------------------------------------- Md2docxTool._invoke, entry
\* tool_parameters.get('name') + ".docx" with no name: None + str raises.
InvokeNoName ==
    /\ pc = "invoke"
    /\ ~tool_parameters.name.present
    /\ pc' = "raised"
    /\ UNCHANGED <<stream_vars, calls, tool_parameters, parser_vars, done_elements, document, status,
                   file_bytes, pipeline_calls, messages>>

InvokeNoContent ==
    /\ pc = "invoke"
    /\ tool_parameters.name.present
    /\ ~Truthy(tool_parameters.content)
    /\ messages' = Append(messages, TextMessage(<<"No markdown content provided.">>))
    /\ pc' = "done"
    /\ UNCHANGED <<stream_vars, calls, tool_parameters, parser_vars, done_elements, document, status,
                   file_bytes, pipeline_calls>>

\* The call of convert_md_to_docx up to the start of parse; a content that is
\* not a string makes MarkdownParser.__init__ raise inside the try block.
InvokeConvert ==
    /\ pc = "invoke"
    /\ tool_parameters.name.present
    /\ Truthy(tool_parameters.content)
    /\ pipeline_calls' = pipeline_calls + 1
    /\ IF tool_parameters.content.kind = "nonstring"
       THEN convert_failed
       ELSE /\ lines' = tool_parameters.content.lines
            /\ i' = 0
            /\ in_code_block' = FALSE
            /\ code_lines' = <<>>
            /\ code_lang' = <<>>
            /\ elements' = <<>>
            /\ iterations' = 0
            /\ pc' = "parse"
            /\ UNCHANGED <<done_elements, document, status, file_bytes>>
    /\ UNCHANGED <<stream_vars, calls, tool_parameters, messages>>

\* ---------------------------------------------------- MarkdownParser.parse
is_fence(line) == StartsWith(Strip(line), Fence)

\* A variant of the dispatch order in which the list test precedes the table
\* test.
Branch_list_before_table(ls, idx, in_code) ==
    LET line == ls[idx + 1]
    IN  IF is_fence(line) THEN "fence"
        ELSE IF in_code THEN "code"
        ELSE IF heading_match(line).ok THEN "heading"
        ELSE IF is_list_item(line).is_list /\ parse_list(ls, idx).data.type # "none" THEN "list"
        ELSE IF is_table_row(line) /\ parse_table(ls, idx).data.type # "none" THEN "table"
        ELSE IF img_match(line).ok THEN "image"
        ELSE IF Strip(line) = <<>> THEN "blank"
        ELSE "paragraph"

\* The branch the body of the dispatch loop takes at cursor idx: the tests of
\* the loop body in their written order, a failed table or list attempt
\* falling through to the tests below it.
Branch(ls, idx, in_code) ==
    LET line == ls[idx + 1]
    IN  IF is_fence(line) THEN "fence"
        ELSE IF in_code THEN "code"
        ELSE IF heading_match(line).ok THEN "heading"
        ELSE IF is_table_row(line) /\ parse_table(ls, idx).data.type # "none" THEN "table"
        ELSE IF is_list_item(line).is_list /\ parse_list(ls, idx).data.type # "none" THEN "list"
        ELSE IF img_match(line).ok THEN "image"
        ELSE IF Strip(line) = <<>> THEN "blank"
        ELSE "paragraph"

\* One iteration of the dispatch loop is about to run and takes branch b.  An
\* iteration that leaves the whole parser state as it found it repeats for
\* ever; the loop is followed up to the first such iteration.
AtBranch(b) ==
    /\ pc = "parse"
    /\ i < Len(lines)
    /\ iterations <= i
    /\ Branch(lines, i, in_code_block) = b

Iterate ==
    /\ iterations' = iterations + 1
    /\ pc' = "parse"
    /\ UNCHANGED <<stream_vars, calls, tool_parameters, lines, done_elements, document, status,
                   file_bytes, pipeline_calls, messages>>

FenceStep ==
    /\ AtBranch("fence")
    /\ IF ~in_code_block
       THEN /\ in_code_block' = TRUE
            /\ code_lang' = Strip(DropFirst(Strip(lines[i + 1]), 3))
            /\ code_lines' = <<>>
            /\ elements' = elements
       ELSE /\ in_code_block' = FALSE
            /\ elements' = Append(elements,
                   [type |-> "code", content |-> Join(code_lines, <<"\n">>),
                    language |-> code_lang])
            /\ code_lines' = <<>>
            /\ code_lang' = <<>>
    /\ i' = i + 1
    /\ Iterate

\* CodeLineStep storing the body line trimmed.
CodeLineStep_trimmed ==
    /\ AtBranch("code")
    /\ code_lines' = Append(code_lines, Strip(lines[i + 1]))
    /\ i' = i + 1
    /\ UNCHANGED <<in_code_block, code_lang, elements>>
    /\ Iterate

CodeLineStep ==
    /\ AtBranch("code")
    /\ code_lines' = Append(code_lines, lines[i + 1])
    /\ i' = i + 1
    /\ UNCHANGED <<in_code_block, code_lang, elements>>
    /\ Iterate

HeadingStep ==
    /\ AtBranch("heading")
    /\ LET m == heading_match(lines[i + 1])
       IN  elements' = Append(elements,
               [type |-> "heading", level |-> m.level, content |-> Strip(m.text)])
    /\ i' = i + 1
    /\ UNCHANGED <<in_code_block, code_lines, code_lang>>
    /\ Iterate

TableStep ==
    /\ AtBranch("table")
    /\ LET r == parse_table(lines, i)
       IN  /\ elements' = Append(elements, r.data)
           /\ i' = r.next
    /\ UNCHANGED <<in_code_block, code_lines, code_lang>>
    /\ Iterate

ListStep ==
    /\ AtBranch("list")
    /\ LET r == parse_list(lines, i)
       IN  /\ elements' = Append(elements, r.data)
           /\ i' = r.next
    /\ UNCHANGED <<in_code_block, code_lines, code_lang>>
    /\ Iterate

ImageStep ==
    /\ AtBranch("image")
    /\ LET m == img_match(lines[i + 1])
       IN  elements' = Append(elements, [type |-> "image", alt |-> m.alt, url |-> m.url])
    /\ i' = i + 1
    /\ UNCHANGED <<in_code_block, code_lines, code_lang>>
    /\ Iterate

BlankStep ==
    /\ AtBranch("blank")
    /\ i' = i + 1
    /\ UNCHANGED <<in_code_block, code_lines, code_lang, elements>>
    /\ Iterate

\* The paragraph fallback: the inner loop moves the cursor, and elements are
\* appended only when it collected a line.
ParagraphStep ==
    /\ AtBranch("paragraph")
    /\ LET stop            == ParagraphEnd(lines, i)
           paragraph_lines == SubSeq(lines, i + 1, stop)
       IN  /\ i' = stop
           /\ elements' = IF paragraph_lines # <<>>
                          THEN elements \o paragraph_elements(paragraph_lines)
                          ELSE elements
    /\ UNCHANGED <<in_code_block, code_lines, code_lang>>
    /\ Iterate

\* The loop condition fails: parse returns the elements.
\* A variant of the return in which a code block still open at the end of the
\* input is emitted.
ParseReturn_flushes_open_fence ==
    /\ pc = "parse"
    /\ i >= Len(lines)
    /\ pc' = "convert"
    /\ done_elements' = 0
    /\ document' = <<>>
    /\ elements' = IF in_code_block
                   THEN Append(elements,
                            [type |-> "code", content |-> Join(code_lines, <<"\n">>),
                             language |-> code_lang])
                   ELSE elements
    /\ UNCHANGED <<stream_vars, calls, tool_parameters, lines, i, in_code_block, code_lines,
                   code_lang, iterations, status, file_bytes, pipeline_calls,
                   messages>>

ParseReturn ==
    /\ pc = "parse"
    /\ i >= Len(lines)
    /\ pc' = "convert"
    /\ done_elements' = 0
    /\ document' = <<>>
    /\ UNCHANGED <<stream_vars, calls, tool_parameters, parser_vars, status, file_bytes,
                   pipeline_calls, messages>>

\* ------------------------------------------------------------ DocxConverter
FONT_SIZE_3 == 16
FONT_SIZE_4 == 14
CodeFontSize == 10

Run(text, size, bold, italic) ==
    [text |-> text, size |-> size, bold |-> bold, italic |-> italic]

ParagraphBlock(style, runs) == [block |-> "paragraph", style |-> style, runs |-> runs]

EmptyParagraph == ParagraphBlock("empty", <<>>)

add_heading(text, level) ==
    <<ParagraphBlock("heading",
        <<Run(text, IF level = 1 THEN FONT_SIZE_3 ELSE FONT_SIZE_4, TRUE, FALSE)>>)>>

add_paragraph(text, formatted_parts) ==
    <<ParagraphBlock("body",
        IF formatted_parts # <<>>
        THEN [k \in 1..Len(formatted_parts) |->
                 Run(formatted_parts[k].text, FONT_SIZE_4,
                     formatted_parts[k].bold, formatted_parts[k].italic)]
        ELSE <<Run(text, FONT_SIZE_4, FALSE, FALSE)>>)>>

add_code(code_text, language) ==
    <<ParagraphBlock("code", <<Run(code_text, CodeFontSize, FALSE, FALSE)>>)>>

\* What download_image, the image validation and add_picture can come to:
\* the picture is embedded; download_image returns None; Image.open or
\* verify raises; add_picture raises on bytes that passed the validation.
ImageOutcomes == {"embedded", "fetch_failed", "decode_failed", "insert_failed"}

\* The two characters of the word the placeholder and the caption start with.
TU == "U+56FE"
PIAN == "U+7247"

\* A variant of the placeholder text that prefers the url to the alt text.
ImagePlaceholder_url_first(url, alt_text) ==
    <<"[", TU, PIAN, ":", " ">> \o (IF url # <<>> THEN url ELSE alt_text) \o <<"]">>

ImagePlaceholder(url, alt_text) ==
    <<"[", TU, PIAN, ":", " ">> \o (IF alt_text # <<>> THEN alt_text ELSE url) \o <<"]">>

\* The centered paragraph add_image creates for the picture, left without one
\* when add_picture raises.
PictureParagraph == ParagraphBlock("picture", <<>>)

add_image(url, alt_text, outcome) ==
    IF outcome = "embedded"
    THEN <<[block |-> "picture", url |-> url]>>
         \o (IF alt_text # <<>>
             THEN <<ParagraphBlock("caption",
                      <<Run(<<TU, ":", " ">> \o alt_text, CodeFontSize, FALSE, FALSE)>>)>>
             ELSE <<>>)
    ELSE (IF outcome = "insert_failed" THEN <<PictureParagraph>> ELSE <<>>)
         \o add_paragraph(ImagePlaceholder(url, alt_text), <<>>)

\* A variant of the grid that is as wide as its longest row.
add_table_widened(headers, rows) ==
    LET Max(a, b) == IF a >= b THEN a ELSE b
        RECURSIVE Widest(_, _)
        Widest(k, w) == IF k > Len(rows) THEN w ELSE Widest(k + 1, Max(w, Len(rows[k])))
        cols == Widest(1, Len(headers))
        cell(r, c) ==
            IF r = 1 THEN (IF c <= Len(headers) THEN headers[c] ELSE <<>>)
            ELSE IF c <= Len(rows[r - 1]) THEN rows[r - 1][c] ELSE <<>>
    IN  <<[block |-> "table", n_rows |-> 1 + Len(rows), n_cols |-> cols,
           cells |-> [r \in 1..(1 + Len(rows)) |-> [c \in 1..cols |-> cell(r, c)]]]>>
        \o <<EmptyParagraph>>

add_table(headers, rows) ==
    LET cols == Len(headers)
        cell(r, c) ==
            IF r = 1 THEN headers[c]
            ELSE IF c <= Len(rows[r - 1]) THEN rows[r - 1][c] ELSE <<>>
    IN  <<[block |-> "table", n_rows |-> 1 + Len(rows), n_cols |-> cols,
           cells |-> [r \in 1..(1 + Len(rows)) |-> [c \in 1..cols |-> cell(r, c)]]]>>
        \o <<EmptyParagraph>>

\* A variant of the renderer's copy whose pattern has no triple-asterisk
\* alternative.
ConverterMatchAt_without_triple(text, p) ==
    LET a2 == DelimAt(text, p, "*", 2)
        a3 == DelimAt(text, p, "*", 1)
        a4 == DelimAt(text, p, "_", 2)
        a5 == DelimAt(text, p, "_", 1)
        none == [ok |-> FALSE, end |-> p, part |-> [text |-> <<>>, bold |-> FALSE, italic |-> FALSE]]
    IN  IF a2.ok THEN [ok |-> TRUE, end |-> a2.end,
                       part |-> [text |-> a2.content, bold |-> TRUE, italic |-> FALSE]]
        ELSE IF a3.ok THEN [ok |-> TRUE, end |-> a3.end,
                       part |-> [text |-> a3.content, bold |-> FALSE, italic |-> TRUE]]
        ELSE IF a4.ok THEN [ok |-> TRUE, end |-> a4.end,
                       part |-> [text |-> a4.content, bold |-> TRUE, italic |-> FALSE]]
        ELSE IF a5.ok THEN [ok |-> TRUE, end |-> a5.end,
                       part |-> [text |-> a5.content, bold |-> FALSE, italic |-> TRUE]]
        ELSE none

\* DocxConverter._parse_inline_formatting, the renderer's own copy.
ConverterMatchAt(text, p) ==
    LET a1 == DelimAt(text, p, "*", 3)
        a2 == DelimAt(text, p, "*", 2)
        a3 == DelimAt(text, p, "*", 1)
        a4 == DelimAt(text, p, "_", 2)
        a5 == DelimAt(text, p, "_", 1)
        none == [ok |-> FALSE, end |-> p, part |-> [text |-> <<>>, bold |-> FALSE, italic |-> FALSE]]
    IN  IF a1.ok THEN [ok |-> TRUE, end |-> a1.end,
                       part |-> [text |-> a1.content, bold |-> TRUE, italic |-> TRUE]]
        ELSE IF a2.ok THEN [ok |-> TRUE, end |-> a2.end,
                       part |-> [text |-> a2.content, bold |-> TRUE, italic |-> FALSE]]
        ELSE IF a3.ok THEN [ok |-> TRUE, end |-> a3.end,
                       part |-> [text |-> a3.content, bold |-> FALSE, italic |-> TRUE]]
        ELSE IF a4.ok THEN [ok |-> TRUE, end |-> a4.end,
                       part |-> [text |-> a4.content, bold |-> TRUE, italic |-> FALSE]]
        ELSE IF a5.ok THEN [ok |-> TRUE, end |-> a5.end,
                       part |-> [text |-> a5.content, bold |-> FALSE, italic |-> TRUE]]
        ELSE none

RECURSIVE ConverterInlineScan(_, _, _)
ConverterInlineScan(text, p, last_pos) ==
    IF p > Len(text)
    THEN IF last_pos < Len(text)
         THEN <<PlainPart(SubSeq(text, last_pos + 1, Len(text)))>> ELSE <<>>
    ELSE LET m == ConverterMatchAt(text, p)
         IN  IF m.ok
             THEN (IF p - 1 > last_pos
                   THEN <<PlainPart(SubSeq(text, last_pos + 1, p - 1))>> ELSE <<>>)
                  \o <<m.part>> \o ConverterInlineScan(text, m.end, m.end - 1)
             ELSE ConverterInlineScan(text, p + 1, last_pos)

converter_parse_inline_formatting(text) ==
    LET parts == ConverterInlineScan(text, 1, 0)
    IN  IF parts = <<>> THEN <<PlainPart(text)>> ELSE parts

\* A variant of the list rendering without the paragraph after the items.
add_list_without_trailing_paragraph(list_type, items) ==
    LET list_style == IF list_type = "unordered" THEN "List Bullet" ELSE "List Number"
        item_runs(item) ==
            LET parts == SelectSeq(converter_parse_inline_formatting(item.content),
                                   LAMBDA part : part.text # <<>>)
            IN  [k \in 1..Len(parts) |->
                    Run(parts[k].text, FONT_SIZE_4, parts[k].bold, parts[k].italic)]
    IN  [k \in 1..Len(items) |-> ParagraphBlock(list_style, item_runs(items[k]))]

add_list(list_type, items) ==
    LET list_style == IF list_type = "unordered" THEN "List Bullet" ELSE "List Number"
        item_runs(item) ==
            LET parts == SelectSeq(converter_parse_inline_formatting(item.content),
                                   LAMBDA part : part.text # <<>>)
            IN  [k \in 1..Len(parts) |->
                    Run(parts[k].text, FONT_SIZE_4, parts[k].bold, parts[k].italic)]
    IN  [k \in 1..Len(items) |-> ParagraphBlock(list_style, item_runs(items[k]))]
        \o <<EmptyParagraph>>

\* The blocks one iteration of the loop of convert appends for element.
element_blocks(element, outcome) ==
    IF element.type = "heading" THEN add_heading(element.content, element.level)
    ELSE IF element.type = "paragraph"
         THEN add_paragraph(element.content, element.formatted_parts)
    ELSE IF element.type = "code" THEN add_code(element.content, element.language)
    ELSE IF element.type = "image" THEN add_image(element.url, element.alt, outcome)
    ELSE IF element.type = "table" THEN add_table(element.headers, element.rows)
    ELSE IF element.type = "list" THEN add_list(element.list_type, element.items)
    ELSE <<>>

\* One iteration of the loop of DocxConverter.convert.
ConvertElement ==
    /\ pc = "convert"
    /\ done_elements < Len(elements)
    /\ LET element == elements[done_elements + 1]
       IN  \E outcome \in (IF element.type = "image" THEN ImageOutcomes ELSE {"embedded"}) :
               document' = document \o element_blocks(element, outcome)
    /\ done_elements' = done_elements + 1
    /\ UNCHANGED <<stream_vars, calls, tool_parameters, pc, parser_vars, status, file_bytes,
                   pipeline_calls, messages>>

\* The element types convert has a branch for.
RenderedTypes == {"heading", "paragraph", "code", "image", "table", "list"}

\* A call into the document library raises while an element is rendered; an
\* element of another type is skipped without any call.
ConvertRaise ==
    /\ pc = "convert"
    /\ done_elements < Len(elements)
    /\ elements[done_elements + 1].type \in RenderedTypes
    /\ convert_failed
    /\ UNCHANGED <<stream_vars, calls, tool_parameters, pipeline_calls, messages>>

\* document.save(output_stream) and the return of (1, bytes).
Save ==
    /\ pc = "convert"
    /\ done_elements = Len(elements)
    /\ status' = 1
    /\ file_bytes' = [present |-> TRUE, blocks |-> document]
    /\ pc' = "returned"
    /\ DropLocals
    /\ UNCHANGED <<stream_vars, calls, tool_parameters, pipeline_calls, messages>>

\* document.save raises.
SaveRaise ==
    /\ pc = "convert"
    /\ done_elements = Len(elements)
    /\ convert_failed
    /\ UNCHANGED <<stream_vars, calls, tool_parameters, pipeline_calls, messages>>

\* ------------------------------------------- Md2docxTool._invoke, the yields
output_name == tool_parameters.name.value \o DocxSuffix

YieldAck ==
    /\ pc = "returned"
    /\ status = 1
    /\ messages' = Append(messages,
           TextMessage(<<"Document '">> \o output_name \o <<"' generated successfully">>))
    /\ pc' = "ack_yielded"
    /\ UNCHANGED <<stream_vars, calls, tool_parameters, parser_vars, done_elements, document, status,
                   file_bytes, pipeline_calls>>

YieldBlob ==
    /\ pc = "ack_yielded"
    /\ messages' = Append(messages,
           [type |-> "blob", blob |-> file_bytes,
            meta |-> [mime_type |-> DocxMime, filename |-> output_name]])
    /\ pc' = "done"
    /\ UNCHANGED <<stream_vars, calls, tool_parameters, parser_vars, done_elements, document, status,
                   file_bytes, pipeline_calls>>

YieldError ==
    /\ pc = "returned"
    /\ status # 1
    /\ messages' = Append(messages, TextMessage(<<"Error converting markdown to DOCX">>))
    /\ pc' = "done"
    /\ UNCHANGED <<stream_vars, calls, tool_parameters, parser_vars, done_elements, document, status,
                   file_bytes, pipeline_calls>>

\* ------------------------------------------------------- the specification
Next ==
    \/ InvokeNoName
    \/ InvokeNoContent
    \/ InvokeConvert
    \/ FenceStep
    \/ CodeLineStep
    \/ HeadingStep
    \/ TableStep
    \/ ListStep
    \/ ImageStep
    \/ BlankStep
    \/ ParagraphStep
    \/ ParseReturn
    \/ ConvertElement
    \/ ConvertRaise
    \/ Save
    \/ SaveRaise
    \/ YieldAck
    \/ YieldBlob
    \/ YieldError

Spec == Init /\ [][Next]_vars

\* parser = MarkdownParser(md_content) has run on a non-empty text.
InitParse ==
    /\ tool_parameters \in
           {[content |-> [kind |-> "text", lines |-> d],
             name    |-> [present |-> TRUE, value |-> <<"r">>]] :
                d \in Documents \ {<<BlankLine>>}}
    /\ pc = "parse"
    /\ lines = tool_parameters.content.lines
    /\ i = 0
    /\ in_code_block = FALSE
    /\ code_lines = <<>>
    /\ code_lang = <<>>
    /\ elements = <<>>
    /\ iterations = 0
    /\ done_elements = 0
    /\ document = <<>>
    /\ status = -1
    /\ file_bytes = NoBytes
    /\ pipeline_calls = 1
    /\ messages = <<>>
    /\ calls = NoCalls
    /\ StreamIdle

NextParse ==
    \/ FenceStep
    \/ CodeLineStep
    \/ HeadingStep
    \/ TableStep
    \/ ListStep
    \/ ImageStep
    \/ BlankStep
    \/ ParagraphStep
    \/ ParseReturn

SpecParse == InitParse /\ [][NextParse]_vars

\* ------------------------------------------- the inline formatter alone
\* The characters of the texts the inline formatter is run on: a letter, a
\* space and the two delimiter characters of its pattern.
InlineAlphabet == {"a", " ", "*", "_"}

Texts == UNION {[1..n -> InlineAlphabet] : n \in 0..MaxText}

\* parse is about to build a paragraph element from a text.
InitInline ==
    /\ tool_parameters \in
           {[content |-> [kind |-> "text", lines |-> <<t>>],
             name    |-> [present |-> TRUE, value |-> <<"r">>]] : t \in Texts}
    /\ pc = "inline"
    /\ lines = tool_parameters.content.lines
    /\ i = 0
    /\ in_code_block = FALSE
    /\ code_lines = <<>>
    /\ code_lang = <<>>
    /\ elements = <<>>
    /\ iterations = 0
    /\ done_elements = 0
    /\ document = <<>>
    /\ status = -1
    /\ file_bytes = NoBytes
    /\ pipeline_calls = 1
    /\ messages = <<>>
    /\ calls = NoCalls
    /\ StreamIdle

\* formatted_parts = self._parse_inline_formatting(paragraph_text) and the
\* append of the paragraph element.
FormatParagraph ==
    /\ pc = "inline"
    /\ elements' = Append(elements, paragraph_element(lines[1]))
    /\ pc' = "inline_done"
    /\ UNCHANGED <<stream_vars, calls, tool_parameters, lines, i, in_code_block, code_lines, code_lang,
                   iterations, done_elements, document, status, file_bytes,
                   pipeline_calls, messages>>

NextInline == FormatParagraph

SpecInline == InitInline /\ [][NextInline]_vars

\* ------------------------------------------------- the converter alone
\* Elements as parse builds them, and one of a type convert has no branch
\* for.  The table has a row shorter and a row longer than its headers.
TopHeading == [type |-> "heading", level |-> 1, content |-> <<"h">>]
SubHeading == [type |-> "heading", level |-> 2, content |-> <<"h">>]
EmphasisParagraph == paragraph_element(<<"a", "*", "b", "*">>)
CodeElement == [type |-> "code", content |-> <<"c", "\n", " ", "d">>, language |-> <<"p">>]
AltImage == [type |-> "image", alt |-> <<"a">>, url |-> <<"u">>]
BareImage == [type |-> "image", alt |-> <<>>, url |-> <<"u">>]
RaggedTable ==
    [type |-> "table", headers |-> <<<<"A">>, <<"B">>>>,
     rows |-> << <<<<"1">>>>, <<<<"1">>, <<"2">>, <<"3">>>> >>]
BulletList ==
    [type |-> "list", list_type |-> "unordered",
     items |-> <<[content |-> <<"a">>, type |-> "unordered"],
                 [content |-> <<"_", "b", "_">>, type |-> "unordered"]>>]
UnknownElement == [type |-> "quote", content |-> <<"q">>]

ElementPool ==
    {TopHeading, SubHeading, EmphasisParagraph, CodeElement, AltImage, BareImage,
     RaggedTable, BulletList, UnknownElement}

ElementSequences == UNION {[1..n -> ElementPool] : n \in 0..MaxElements}

\* converter = DocxConverter(image_width=image_width) has run and convert is
\* about to be called on a sequence of elements.
InitRender ==
    /\ tool_parameters =
           [content |-> [kind |-> "text", lines |-> <<TextLine>>],
            name    |-> [present |-> TRUE, value |-> <<"r">>]]
    /\ pc = "convert"
    /\ lines = tool_parameters.content.lines
    /\ i = Len(lines)
    /\ in_code_block = FALSE
    /\ code_lines = <<>>
    /\ code_lang = <<>>
    /\ elements \in ElementSequences
    /\ iterations = 0
    /\ done_elements = 0
    /\ document = <<>>
    /\ status = -1
    /\ file_bytes = NoBytes
    /\ pipeline_calls = 1
    /\ messages = <<>>
    /\ calls = NoCalls
    /\ StreamIdle

NextRender ==
    \/ ConvertElement
    \/ ConvertRaise
    \/ Save
    \/ SaveRaise

SpecRender == InitRender /\ [][NextRender]_vars

\* ------------------------------------------------------ concurrent calls
\* Calls of convert_md_to_docx on separate threads.  The variables above are
\* the frame of the thread that is running; the frames of the suspended
\* threads are kept in calls.saved, and a thread switch exchanges them.
CallIds == 1..NumCalls

\* The texts the concurrent calls convert: between them they take every
\* branch of the dispatch loop and of convert.
ConcurrentDocuments ==
    {<<FenceLine, TextLine, FenceLine>>,
     <<HeadingLine, BlankLine, TextLine>>,
     <<HeaderLine, DashLine, BulletLine>>,
     <<ImageLine>>}

\* The frame of the running thread: everything a call works on is local to
\* the call or an attribute of the parser and converter objects it creates.
Frame ==
    [tool_parameters |-> tool_parameters, pc |-> pc, lines |-> lines, i |-> i,
     in_code_block |-> in_code_block, code_lines |-> code_lines,
     code_lang |-> code_lang, elements |-> elements, iterations |-> iterations,
     done_elements |-> done_elements, document |-> document, status |-> status,
     file_bytes |-> file_bytes, pipeline_calls |-> pipeline_calls,
     messages |-> messages]

\* The frame of a thread that is about to call convert_md_to_docx(d).
EntryFrame(d) ==
    [tool_parameters |-> [content |-> [kind |-> "text", lines |-> d],
                          name    |-> [present |-> TRUE, value |-> <<"r">>]],
     pc |-> "invoke", lines |-> <<>>, i |-> 0, in_code_block |-> FALSE,
     code_lines |-> <<>>, code_lang |-> <<>>, elements |-> <<>>, iterations |-> 0,
     done_elements |-> 0, document |-> <<>>, status |-> -1, file_bytes |-> NoBytes,
     pipeline_calls |-> 0, messages |-> <<>>]

\* The slot of the running thread in calls.saved.
Running == [pc |-> "running"]

InitConcurrent ==
    \E d \in [CallIds -> ConcurrentDocuments] :
        /\ tool_parameters = EntryFrame(d[1]).tool_parameters
        /\ pc = "invoke"
        /\ lines = <<>>
        /\ i = 0
        /\ in_code_block = FALSE
        /\ code_lines = <<>>
        /\ code_lang = <<>>
        /\ elements = <<>>
        /\ iterations = 0
        /\ done_elements = 0
        /\ document = <<>>
        /\ status = -1
        /\ file_bytes = NoBytes
        /\ pipeline_calls = 0
        /\ messages = <<>>
        /\ calls = [running |-> 1,
                    saved |-> [c \in CallIds |-> IF c = 1 THEN Running
                                                  ELSE EntryFrame(d[c])]]
        /\ StreamIdle

\* A variant in which the document is not part of a thread's frame: all
\* converters append to one document.
LoadedDocument_of_running(c) == document

\* self.document of the converter of call c: DocxConverter.__init__ creates
\* one Document per converter.
LoadedDocument(c) == calls.saved[c].document

\* The scheduler suspends the running thread and resumes thread c.
Switch(c) ==
    /\ c # calls.running
    /\ calls' = [running |-> c,
                 saved |-> [calls.saved EXCEPT ![calls.running] = Frame,
                                               ![c] = Running]]
    /\ tool_parameters' = calls.saved[c].tool_parameters
    /\ pc' = calls.saved[c].pc
    /\ lines' = calls.saved[c].lines
    /\ i' = calls.saved[c].i
    /\ in_code_block' = calls.saved[c].in_code_block
    /\ code_lines' = calls.saved[c].code_lines
    /\ code_lang' = calls.saved[c].code_lang
    /\ elements' = calls.saved[c].elements
    /\ iterations' = calls.saved[c].iterations
    /\ done_elements' = calls.saved[c].done_elements
    /\ document' = LoadedDocument(c)
    /\ status' = calls.saved[c].status
    /\ file_bytes' = calls.saved[c].file_bytes
    /\ pipeline_calls' = calls.saved[c].pipeline_calls
    /\ messages' = calls.saved[c].messages
    /\ UNCHANGED stream_vars

NextConcurrent ==
    \/ InvokeConvert
    \/ FenceStep
    \/ CodeLineStep
    \/ HeadingStep
    \/ TableStep
    \/ ListStep
    \/ ImageStep
    \/ BlankStep
    \/ ParagraphStep
    \/ ParseReturn
    \/ ConvertElement
    \/ ConvertRaise
    \/ Save
    \/ SaveRaise
    \/ \E c \in CallIds : Switch(c)

SpecConcurrent == InitConcurrent /\ [][NextConcurrent]_vars

\* ================================================================== claims
\* A step that is one iteration of the dispatch loop of parse.
ParseIteration == pc = "parse" /\ pc' = "parse"

\* The line under the cursor.
CursorLine == lines[i + 1]

LastElement(es) == es[Len(es)]

\* C1: every iteration of the dispatch loop of parse consumes at least one
\* line, so parse terminates on every input (a line that no rule takes cleanly
\* included).
C1_EveryIterationConsumesALine == [][ParseIteration => i' > i]_vars

\* The table rule is tried at index idx and rejected: the run of table rows
\* from idx has fewer than two rows or its second row is no separator row.
RejectedTableAt(ls, idx) ==
    /\ is_table_row(ls[idx + 1])
    /\ ~(idx + 1 < Len(ls) /\ is_table_row(ls[idx + 2]) /\ is_table_separator(ls[idx + 2]))

\* C2: a table-row line whose table interpretation is rejected, and that no
\* lower-priority rule (list item, standalone image) takes, is emitted in a
\* Paragraph and the scan moves on past it.
C2_RejectedTableBecomesParagraph ==
    [][(/\ ParseIteration
        /\ ~in_code_block
        /\ ~is_fence(CursorLine)
        /\ ~heading_match(CursorLine).ok
        /\ RejectedTableAt(lines, i)
        /\ ~is_list_item(CursorLine).is_list
        /\ ~img_match(CursorLine).ok)
       => (/\ i' > i
           /\ Len(elements') > Len(elements)
           /\ \A k \in (Len(elements) + 1)..Len(elements') :
                  elements'[k].type \in {"paragraph", "image"})]_vars

\* C3: convert_md_to_docx comes to (1, bytes) or to (0, no bytes) and to
\* nothing else; no exception leaves it, and bytes never come with a failure.
C3_TwoOutcomes ==
    /\ pipeline_calls > 0 => pc # "raised"
    /\ (pipeline_calls > 0 /\ pc \in {"returned", "ack_yielded", "done"})
          => \/ status = 1 /\ file_bytes.present
             \/ status = 0 /\ ~file_bytes.present
    /\ (pipeline_calls = 0 \/ pc \in {"invoke", "parse", "convert"})
          => status = -1 /\ ~file_bytes.present

\* An exception raised while a text was rendered or saved came to (0, no bytes).
C3_Witness ==
    /\ pc = "returned"
    /\ tool_parameters.content.kind = "text"
    /\ status = 0
    /\ ~file_bytes.present

SuccessMessages(m) ==
    /\ Len(m) = 2
    /\ m[1].type = "text"
    /\ m[2].type = "blob"
    /\ m[2].meta = [mime_type |-> DocxMime,
                    filename  |-> tool_parameters.name.value \o DocxSuffix]

FailureMessages(m) == Len(m) = 1 /\ m[1].type = "text"

\* C4: for a non-empty content, _invoke ends having yielded either the text
\* acknowledgment followed by the binary message (DOCX MIME type, filename =
\* name + ".docx"), or exactly one text message; nothing else.
C4_OneOfTwoSequences ==
    (/\ tool_parameters.content.kind = "text"
     /\ Truthy(tool_parameters.content)
     /\ pc \in {"done", "raised"})
        => SuccessMessages(messages) \/ FailureMessages(messages)

\* C5: with the content missing or empty, _invoke yields exactly one text
\* message, no binary message, and never calls convert_md_to_docx, whatever
\* the other parameters are.
C5_NoContentOneTextMessage ==
    (~Truthy(tool_parameters.content) /\ pc \in {"done", "raised"})
        => /\ Len(messages) = 1
           /\ messages[1].type = "text"
           /\ pipeline_calls = 0

\* The line that opened the fence the cursor is in: the last fence line
\* before index idx (0-based).
OpenFence(ls, idx) ==
    CHOOSE o \in 0..(idx - 1) :
        is_fence(ls[o + 1]) /\ \A k \in (o + 1)..(idx - 1) : ~is_fence(ls[k + 1])

HeadingShape(line) ==
    LET n == PrefixLen(line, {"#"})
    IN  /\ n \in 1..6
        /\ Len(line) > n
        /\ line[n + 1] \in Spaces
        /\ Strip(DropFirst(line, n)) # <<>>

HeadingOf(line) ==
    LET n == PrefixLen(line, {"#"})
    IN  [type |-> "heading", level |-> n, content |-> Strip(DropFirst(line, n))]

HeadingLevelsInRange ==
    \A k \in 1..Len(elements) : elements[k].type = "heading" => elements[k].level \in 1..6

\* C7, as stated: every heading-shaped line that parse consumes outside a fence
\* is consumed alone and yields exactly one Heading with level = number of '#'
\* and text = the trimmed remainder.
C7_EveryHeadingLine ==
    [][(ParseIteration /\ ~in_code_block)
       => \A k \in i..(i' - 1) :
              HeadingShape(lines[k + 1])
                  => /\ k = i
                     /\ i' = i + 1
                     /\ elements' = Append(elements, HeadingOf(lines[k + 1]))]_vars

\* C7, amended: a heading-shaped line on which the cursor of the dispatch
\* loop stands outside a fence yields exactly one Heading with level = number
\* of '#' and text = the trimmed remainder and is consumed alone; every
\* Heading element has a level in 1..6.
C7_HeadingAtCursor ==
    /\ []HeadingLevelsInRange
    /\ [][(ParseIteration /\ ~in_code_block /\ HeadingShape(CursorLine))
          => /\ i' = i + 1
             /\ elements' = Append(elements, HeadingOf(CursorLine))]_vars

\* A level-2 heading with a trimmed text was emitted after another element.
C7_Witness ==
    /\ pc = "parse"
    /\ Len(elements) = 2
    /\ elements[2] = [type |-> "heading", level |-> 2, content |-> <<"h">>]
    /\ lines[i] = HeadingLine

\* The cells of a table line as the claim words them: drop one leading and one
\* trailing '|' of the trimmed line, cut at every remaining '|', trim each cell.
ClaimCells(line) ==
    LET s0    == Strip(line)
        a     == IF s0 # <<>> /\ s0[1] = "|" THEN 2 ELSE 1
        s1    == SubSeq(s0, a, Len(s0))
        b     == IF s1 # <<>> /\ s1[Len(s1)] = "|" THEN Len(s1) - 1 ELSE Len(s1)
        inner == SubSeq(s1, 1, b)
        bars  == {k \in 1..Len(inner) : inner[k] = "|"}
        \* the position of the n-th bar, 0 for n = 0 and Len + 1 past the last
        bar(n) == IF n = 0 THEN 0
                  ELSE IF n > Cardinality(bars) THEN Len(inner) + 1
                  ELSE CHOOSE k \in bars : Cardinality({j \in bars : j < k}) = n - 1
    IN  [n \in 1..(Cardinality(bars) + 1) |->
            Strip(SubSeq(inner, bar(n - 1) + 1, bar(n) - 1))]

\* The 0-based index just past the run of table-row lines that starts at s.
RunEnd(ls, s) ==
    CHOOSE e \in s..Len(ls) :
        /\ \A k \in s..(e - 1) : is_table_row(ls[k + 1])
        /\ e = Len(ls) \/ ~is_table_row(ls[e + 1])

TableOf(ls, s) ==
    [type    |-> "table",
     headers |-> ClaimCells(ls[s + 1]),
     rows    |-> [k \in 1..(RunEnd(ls, s) - s - 2) |-> ClaimCells(ls[s + 2 + k])]]

\* Index s starts a maximal run of two or more table-row lines whose second
\* line is a separator row.
QualifyingRunAt(ls, s) ==
    /\ is_table_row(ls[s + 1])
    /\ s = 0 \/ ~is_table_row(ls[s])
    /\ s + 1 < Len(ls)
    /\ is_table_separator(ls[s + 2])

\* C8, as stated: every maximal run of two or more table-row lines whose
\* second line is a separator row is consumed, outside a fence, as exactly one
\* Table: headers from its first line, rows from the lines after the
\* separator, the cursor resuming after the run.
C8_EveryQualifyingRun ==
    [][(ParseIteration /\ ~in_code_block)
       => \A s \in i..(i' - 1) :
              QualifyingRunAt(lines, s)
                  => /\ s = i
                     /\ i' = RunEnd(lines, s)
                     /\ elements' = Append(elements, TableOf(lines, s))]_vars

\* C8, amended: when the cursor stands, outside a fence, on a table-row line
\* that is no fence line and no heading line and the next line is a separator
\* row, parse emits exactly one Table for the run of table-row lines that
\* starts at the cursor: headers are the cells of the first line, rows the
\* cells of every line after the separator in order, the separator is in
\* neither, and the cursor resumes at the first line after the run.
C8_TableAtCursor ==
    [][(/\ ParseIteration
        /\ ~in_code_block
        /\ ~is_fence(CursorLine)
        /\ ~heading_match(CursorLine).ok
        /\ is_table_row(CursorLine)
        /\ i + 1 < Len(lines)
        /\ is_table_separator(lines[i + 2]))
       => /\ i' = RunEnd(lines, i)
          /\ elements' = Append(elements, TableOf(lines, i))]_vars

\* A table with one data row was emitted and the cursor stands after the run.
C8_Witness ==
    /\ pc = "parse"
    /\ lines = <<HeaderLine, DashLine, BulletRow, TextLine>>
    /\ i = 3
    /\ elements = <<[type |-> "table", headers |-> <<<<"A">>, <<"B">>>>,
                     rows |-> <<<< <<"-", " ", "x">>, <<"y">> >>>>]>>

Blank(line) == Strip(line) = <<>>

\* The cursor stands, outside a fence, on a list-item line that the list rule
\* takes: a list-item line is never a fence or heading line, and the table
\* rule takes it first only when a separator row follows it.
ListRuleAtCursor ==
    /\ ParseIteration
    /\ ~in_code_block
    /\ is_list_item(CursorLine).is_list
    /\ ~(/\ is_table_row(CursorLine)
         /\ i + 1 < Len(lines)
         /\ is_table_separator(lines[i + 2]))

\* The list that starts at index s ends at index k (0-based): the input ends,
\* or line k is neither blank nor a list item, or it is an item of the other
\* kind, or it is a blank line not directly followed by a list-item line.
ListEndsAt(ls, s, k) ==
    \/ k >= Len(ls)
    \/ ~Blank(ls[k + 1]) /\ ~is_list_item(ls[k + 1]).is_list
    \/ is_list_item(ls[k + 1]).is_list
          /\ is_list_item(ls[k + 1]).type # is_list_item(ls[s + 1]).type
    \/ Blank(ls[k + 1]) /\ ~is_list_item(ls[k + 1]).is_list
          /\ (k + 1 >= Len(ls) \/ ~is_list_item(ls[k + 2]).is_list)

ListEnd(ls, s) ==
    CHOOSE e \in s..Len(ls) :
        ListEndsAt(ls, s, e) /\ \A k \in s..(e - 1) : ~ListEndsAt(ls, s, k)

\* The items of the list-item lines among the lines s .. e - 1, in order.
RECURSIVE ItemsBetween(_, _, _)
ItemsBetween(ls, s, e) ==
    IF s >= e THEN <<>>
    ELSE LET li == is_list_item(ls[s + 1])
         IN  (IF li.is_list THEN <<[content |-> li.content, type |-> li.type]>> ELSE <<>>)
             \o ItemsBetween(ls, s + 1, e)

ParseFinished == pc = "convert" /\ done_elements = 0

OneList(kind, contents) ==
    [type |-> "list", list_type |-> kind,
     items |-> [k \in 1..Len(contents) |-> [content |-> contents[k], type |-> kind]]]

\* C9: a list runs on over a single blank line that is directly followed by a
\* list-item line, and ends at two consecutive blank lines, at a blank line
\* followed by a non-list line, and at a non-blank non-list line; its items
\* are those of all the list-item lines up to there. So "- a", "", "- a" is
\* one List of two items, and "- a", "", "", "- a" is two Lists.
C9_BlankLinesInList ==
    /\ [][ListRuleAtCursor
          => /\ i' = ListEnd(lines, i)
             /\ elements' = Append(elements,
                    [type      |-> "list",
                     list_type |-> is_list_item(CursorLine).type,
                     items     |-> ItemsBetween(lines, i, i')])]_vars
    /\ [](ParseFinished
          => /\ lines = <<BulletLine, BlankLine, BulletLine>>
                 => elements = <<OneList("unordered", <<<<"a">>, <<"a">>>>)>>
             /\ lines = <<BulletLine, BlankLine, BlankLine, BulletLine>>
                 => elements = <<OneList("unordered", <<<<"a">>>>),
                                 OneList("unordered", <<<<"a">>>>)>>
             /\ lines = <<BulletLine, BlankLine, TextLine>>
                 => Len(elements) = 2 /\ elements[1] = OneList("unordered", <<<<"a">>>>)
             /\ lines = <<BulletLine, TextLine, BulletLine>>
                 => Len(elements) = 3 /\ elements[1] = OneList("unordered", <<<<"a">>>>))

\* Two items separated by two blank lines were emitted as two Lists.
C9_Witness ==
    /\ ParseFinished
    /\ lines = <<BulletLine, BlankLine, BlankLine, BulletLine>>
    /\ Len(elements) = 2

ListsWellFormed ==
    \A k \in 1..Len(elements) :
        elements[k].type = "list"
            => /\ elements[k].items # <<>>
               /\ elements[k].list_type \in {"unordered", "ordered"}
               /\ \A j \in 1..Len(elements[k].items) :
                      elements[k].items[j].type = elements[k].list_type

\* The cursor stands, outside a fence, on a list-item line of the other kind
\* than the List emitted last.
OtherKindAfterList ==
    /\ ParseIteration
    /\ ~in_code_block
    /\ elements # <<>>
    /\ LastElement(elements).type = "list"
    /\ is_list_item(CursorLine).is_list
    /\ is_list_item(CursorLine).type # LastElement(elements).list_type

StartsNewList ==
    /\ Len(elements') = Len(elements) + 1
    /\ LastElement(elements').type = "list"
    /\ LastElement(elements').list_type = is_list_item(CursorLine).type
    /\ LastElement(elements').items[1].content = is_list_item(CursorLine).content

\* C10, as stated: a list item of the other kind than the List just emitted
\* always starts a new List element right after it.
C10_OtherKindStartsList == [][OtherKindAfterList => StartsNewList]_vars

\* C10, amended: every List element has at least one item and all its items
\* have the kind locked by its first item; the list rule consumes list-item
\* lines of that kind and absorbed blank lines only, and every item line it
\* consumes is in the List; an item of the other kind is left unconsumed and,
\* unless it is a table-row line followed by a separator row (which the table
\* rule takes first, as a Table), starts a new List element right after.
C10_ListKinds ==
    /\ []ListsWellFormed
    /\ [][ListRuleAtCursor
          => /\ \A k \in i..(i' - 1) :
                    \/ Blank(lines[k + 1])
                    \/ /\ is_list_item(lines[k + 1]).is_list
                       /\ is_list_item(lines[k + 1]).type = is_list_item(CursorLine).type
             /\ LastElement(elements').items = ItemsBetween(lines, i, i')]_vars
    /\ [][(OtherKindAfterList /\ ListRuleAtCursor) => StartsNewList]_vars

\* "- a" then "1. b": an unordered List directly followed by an ordered List.
C10_Witness ==
    /\ ParseFinished
    /\ lines = <<BulletLine, NumberLine>>
    /\ elements = <<OneList("unordered", <<<<"a">>>>), OneList("ordered", <<<<"b">>>>)>>

\* ------------------------------------------------------------------ C11
\* The text the inline formatter was given and the runs it returned.
FormattedText == lines[1]

FormattedParts == elements[1].formatted_parts

InlineDone == pc = "inline_done"

DelimiterChars == {"*", "_"}

\* The delimiters of the emphasis pattern, longest first.
EmphasisDelimiters ==
    {<<"*", "*", "*">>, <<"*", "*">>, <<"_", "_">>, <<"*">>, <<"_">>}

\* The delimiters that may have surrounded a run in the text: none for a
\* plain run, any emphasis delimiter for a styled run.
AnyDelimiterOf(part) ==
    IF part.bold \/ part.italic THEN EmphasisDelimiters ELSE {<<>>}

\* The delimiters that give a run its flags.
StyleDelimitersOf(part) ==
    IF part.bold /\ part.italic THEN {<<"*", "*", "*">>}
    ELSE IF part.bold THEN {<<"*", "*">>, <<"_", "_">>}
    ELSE IF part.italic THEN {<<"*">>, <<"_">>}
    ELSE {<<>>}

\* t holds, from position pos on, the runs parts[k..] in order, each between
\* an opening and a closing copy of one of its delimiters, and nothing else.
RECURSIVE Rebuilds(_, _, _, _, _)
Rebuilds(t, pos, parts, k, by_style) ==
    IF k > Len(parts) THEN pos = Len(t) + 1
    ELSE \E d \in (IF by_style THEN StyleDelimitersOf(parts[k])
                              ELSE AnyDelimiterOf(parts[k])) :
            LET piece == d \o parts[k].text \o d
            IN  /\ pos + Len(piece) - 1 <= Len(t)
                /\ SubSeq(t, pos, pos + Len(piece) - 1) = piece
                /\ Rebuilds(t, pos + Len(piece), parts, k + 1, by_style)

\* C11: the runs of the inline formatter partition the text left to right:
\* putting back, around every styled run, an opening and a closing emphasis
\* delimiter gives the text exactly, so the concatenation of the runs is the
\* text with the delimiters of the matched spans removed and nothing else
\* added, dropped or reordered.
C11_RunsPartitionText ==
    InlineDone => Rebuilds(FormattedText, 1, FormattedParts, 1, FALSE)

\* "a *a* a" has been split into the runs "a ", "a" (italic), " a".
C11_Witness ==
    /\ InlineDone
    /\ FormattedText = <<"a", " ", "*", "a", "*", " ", "a">>
    /\ FormattedParts = <<PlainPart(<<"a", " ">>),
                          [text |-> <<"a">>, bold |-> FALSE, italic |-> TRUE],
                          PlainPart(<<" ", "a">>)>>

\* ------------------------------------------------------------------ C12
StyledRun(content, d) ==
    [text |-> content, bold |-> Len(d) >= 2, italic |-> Len(d) # 2]

DelimiterFree(s) == \A k \in 1..Len(s) : s[k] \notin DelimiterChars

\* s is an emphasis span: a delimiter, a non-empty content without the
\* delimiter's character, the same delimiter.
IsSpan(s, d) ==
    /\ Len(s) > 2 * Len(d)
    /\ SubSeq(s, 1, Len(d)) = d
    /\ SubSeq(s, Len(s) - Len(d) + 1, Len(s)) = d
    /\ \A k \in (Len(d) + 1)..(Len(s) - Len(d)) : s[k] # d[1]

\* No emphasis span anywhere in t.
NoSpan(t) ==
    \A p \in 1..Len(t) : \A q \in p..Len(t) : \A d \in EmphasisDelimiters :
        ~IsSpan(SubSeq(t, p, q), d)

PlainRuns(s) == IF s = <<>> THEN <<>> ELSE <<PlainPart(s)>>

\* One span between two texts that hold no delimiter character: the runs are
\* the text before, the span's content with the flags of its delimiter, the
\* text after.
SingleSpanStyled(t, parts) ==
    \A a \in 0..Len(t) : \A b \in (a + 1)..Len(t) : \A d \in EmphasisDelimiters :
        LET pre  == SubSeq(t, 1, a)
            span == SubSeq(t, a + 1, b)
            post == SubSeq(t, b + 1, Len(t))
            content == SubSeq(span, Len(d) + 1, Len(span) - Len(d))
        IN  (/\ DelimiterFree(pre) /\ DelimiterFree(post)
             /\ IsSpan(span, d) /\ DelimiterFree(content))
            => parts = PlainRuns(pre) \o <<StyledRun(content, d)>> \o PlainRuns(post)

\* C12: styles follow the delimiter, longest delimiter first: a run that is
\* bold and italic stood between triple asterisks, a bold run between double
\* asterisks or double underscores, an italic run between single ones, and
\* the runs with neither flag are the text before, between and after; a span
\* standing alone in plain text becomes one run with its delimiter's flags;
\* a text with no span gives exactly one plain run equal to the text.
C12_StylesByDelimiter ==
    InlineDone =>
        /\ Rebuilds(FormattedText, 1, FormattedParts, 1, TRUE)
        /\ SingleSpanStyled(FormattedText, FormattedParts)
        /\ NoSpan(FormattedText) => FormattedParts = <<PlainPart(FormattedText)>>

\* "***a***" has become one run that is bold and italic.
C12_Witness ==
    /\ InlineDone
    /\ FormattedText = <<"*", "*", "*", "a", "*", "*", "*">>
    /\ FormattedParts = <<[text |-> <<"a">>, bold |-> TRUE, italic |-> TRUE]>>

\* ------------------------------------------------------------------ C13
\* A step that is one iteration of the loop of convert, the element it
\* renders and the blocks it appends.
Rendering == pc = "convert" /\ pc' = "convert" /\ done_elements' = done_elements + 1

RenderedElement == elements[done_elements + 1]

AppendedBlocks == SubSeq(document', Len(document) + 1, Len(document'))

DocumentGrows ==
    Len(document') >= Len(document) /\ SubSeq(document', 1, Len(document)) = document

\* No picture reached the document and no paragraph was created for one:
\* the fetch failed, or the fetched bytes did not pass the validation.
NoPictureAttempted ==
    \A k \in 1..Len(AppendedBlocks) :
        /\ AppendedBlocks[k].block # "picture"
        /\ AppendedBlocks[k] # PictureParagraph

\* The text "[" + the fixed word + ": " + (alt or url) + "]".
PlaceholderText(element) ==
    <<"[", TU, PIAN, ":", " ">>
    \o (IF element.alt # <<>> THEN element.alt ELSE element.url) \o <<"]">>

IsParagraphWithText(b, text) ==
    /\ b.block = "paragraph"
    /\ Len(b.runs) = 1
    /\ b.runs[1].text = text

\* C13: rendering an Image element whose fetch fails or whose bytes fail the
\* image validation does not raise: the step appends exactly one paragraph,
\* whose text is the placeholder built from alt when alt is non-empty and
\* from url otherwise, appends no picture, and the loop goes on to the next
\* element; the text depends on the element only.
C13_FailedImagePlaceholder ==
    [][(/\ pc = "convert" /\ pc' = "convert"
        /\ done_elements < Len(elements)
        /\ RenderedElement.type = "image"
        /\ NoPictureAttempted)
       => /\ DocumentGrows
          /\ Len(AppendedBlocks) = 1
          /\ IsParagraphWithText(AppendedBlocks[1], PlaceholderText(RenderedElement))
          /\ done_elements' = done_elements + 1
          /\ elements' = elements]_vars

\* An image without alt text was replaced by the placeholder holding its url,
\* and the element after it was rendered.
C13_Witness ==
    /\ pc = "convert"
    /\ elements = <<BareImage, TopHeading>>
    /\ done_elements = 2
    /\ Len(document) = 2
    /\ IsParagraphWithText(document[1], <<"[", TU, PIAN, ":", " ", "u", "]">>)

\* ------------------------------------------------------------------ C14
\* The line satisfies the table-row heuristic and the list-item pattern.
BothKinds(line) == is_table_row(line) /\ is_list_item(line).is_list

\* The line at index s is followed by a separator row.
StartsValidTable(ls, s) == s + 1 < Len(ls) /\ is_table_separator(ls[s + 2])

ItemOf(line) == [content |-> is_list_item(line).content, type |-> is_list_item(line).type]

\* C14, as stated: every line, outside a fence, that is both a table-row line
\* and a list-item line is tried as a table first: when a separator row
\* follows it, parse emits a Table that starts with it and no List; otherwise
\* the list rule emits it as a List item.
C14_EveryBothKindsLine ==
    [][(ParseIteration /\ ~in_code_block)
       => \A s \in i..(i' - 1) :
              BothKinds(lines[s + 1])
                  => IF StartsValidTable(lines, s)
                     THEN /\ s = i
                          /\ elements' = Append(elements, TableOf(lines, s))
                     ELSE /\ Len(elements') = Len(elements) + 1
                          /\ LastElement(elements').type = "list"
                          /\ \E k \in 1..Len(LastElement(elements').items) :
                                 LastElement(elements').items[k] = ItemOf(lines[s + 1])]_vars

\* C14, amended: when the cursor stands, outside a fence, on a line that is
\* both a table-row line and a list-item line, the table rule is tried first:
\* followed by a separator row, the line starts a Table (its cells are the
\* headers) and no List is emitted for it; otherwise the table is rejected
\* and the list rule emits a List whose first item is the line.
C14_TableFirstAtCursor ==
    [][(ParseIteration /\ ~in_code_block /\ BothKinds(CursorLine))
       => IF StartsValidTable(lines, i)
          THEN /\ elements' = Append(elements, TableOf(lines, i))
               /\ i' = RunEnd(lines, i)
          ELSE /\ Len(elements') = Len(elements) + 1
               /\ SubSeq(elements', 1, Len(elements)) = elements
               /\ LastElement(elements').type = "list"
               /\ LastElement(elements').items[1] = ItemOf(CursorLine)
               /\ i' = ListEnd(lines, i)]_vars

\* "- x|y|" followed by a separator row was emitted as a Table, with no List.
C14_Witness ==
    /\ ParseFinished
    /\ lines = <<BulletRow, DashLine>>
    /\ elements = <<[type |-> "table", headers |-> <<<<"-", " ", "x">>, <<"y">>>>,
                     rows |-> <<>>]>>

\* ------------------------------------------------------------------ C15
\* The line at index k (0-based) is non-blank and matches no rule above the
\* paragraph fallback: it is no fence line, no valid heading, starts no valid
\* table, is no list item and no standalone image.
ParagraphLineAt(ls, k) ==
    LET l == ls[k + 1]
    IN  /\ ~Blank(l)
        /\ ~is_fence(l)
        /\ ~heading_match(l).ok
        /\ ~(is_table_row(l) /\ StartsValidTable(ls, k))
        /\ ~is_list_item(l).is_list
        /\ ~img_match(l).ok

\* The 0-based index just past the maximal run of such lines that starts at s.
SpanEnd(ls, s) ==
    CHOOSE e \in s..Len(ls) :
        /\ \A k \in s..(e - 1) : ParagraphLineAt(ls, k)
        /\ e = Len(ls) \/ ~ParagraphLineAt(ls, e)

\* An element without its runs: the claim is about kind, text and order.
Shape(e) ==
    IF e.type = "paragraph" THEN [type |-> "paragraph", content |-> e.content] ELSE e

Shapes(es) == [k \in 1..Len(es) |-> Shape(es[k])]

TextSegment(s) ==
    IF Strip(s) = <<>> THEN <<>>
    ELSE <<[type |-> "paragraph", content |-> Strip(s)]>>

\* The span from position seg on, cut at its image markers: the text before a
\* marker, the marker's Image, and so on to the text after the last marker.
RECURSIVE CutAtMarkers(_, _, _)
CutAtMarkers(span, seg, p) ==
    IF p > Len(span) THEN TextSegment(SubSeq(span, seg, Len(span)))
    ELSE IF ImageAt(span, p).ok
         THEN TextSegment(SubSeq(span, seg, p - 1))
              \o <<[type |-> "image", alt |-> ImageAt(span, p).alt,
                                       url |-> ImageAt(span, p).url]>>
              \o CutAtMarkers(span, ImageAt(span, p).end, ImageAt(span, p).end)
         ELSE CutAtMarkers(span, seg, p + 1)

SpanElements(span) ==
    IF \E p \in 1..Len(span) : ImageAt(span, p).ok
    THEN CutAtMarkers(span, 1, 1)
    ELSE <<[type |-> "paragraph", content |-> span]>>

\* C15: when the cursor stands, outside a fence, on a non-blank line that
\* matches no other rule, the paragraph fallback consumes the maximal run of
\* such lines and joins them with single spaces; a span without an image
\* marker gives exactly one Paragraph, a span with markers gives, in order,
\* one Image per marker and one Paragraph per text segment that is non-empty
\* after trimming.
C15_ParagraphFallback ==
    [][(ParseIteration /\ ~in_code_block /\ ParagraphLineAt(lines, i))
       => /\ i' = SpanEnd(lines, i)
          /\ Shapes(elements') =
                 Shapes(elements)
                 \o SpanElements(Join(SubSeq(lines, i + 1, SpanEnd(lines, i)), <<" ">>))]_vars

\* ------------------------------------------------------------------ C16
\* The frame of call c, running or suspended.
FrameOf(c) == IF calls.running = c THEN Frame ELSE calls.saved[c]

\* parse run from start to end on its own.
RECURSIVE ParseAlone(_, _, _, _, _, _)
ParseAlone(ls, idx, in_code, body, lang, es) ==
    IF idx >= Len(ls) THEN es
    ELSE LET b    == Branch(ls, idx, in_code)
             line == ls[idx + 1]
         IN  IF b = "fence"
             THEN IF ~in_code
                  THEN ParseAlone(ls, idx + 1, TRUE, <<>>,
                                  Strip(DropFirst(Strip(line), 3)), es)
                  ELSE ParseAlone(ls, idx + 1, FALSE, <<>>, <<>>,
                           Append(es, [type |-> "code",
                                       content |-> Join(body, <<"\n">>),
                                       language |-> lang]))
             ELSE IF b = "code"
             THEN ParseAlone(ls, idx + 1, in_code, Append(body, line), lang, es)
             ELSE IF b = "heading"
             THEN ParseAlone(ls, idx + 1, in_code, body, lang,
                      Append(es, [type |-> "heading",
                                  level |-> heading_match(line).level,
                                  content |-> Strip(heading_match(line).text)]))
             ELSE IF b = "table"
             THEN ParseAlone(ls, parse_table(ls, idx).next, in_code, body, lang,
                             Append(es, parse_table(ls, idx).data))
             ELSE IF b = "list"
             THEN ParseAlone(ls, parse_list(ls, idx).next, in_code, body, lang,
                             Append(es, parse_list(ls, idx).data))
             ELSE IF b = "image"
             THEN ParseAlone(ls, idx + 1, in_code, body, lang,
                      Append(es, [type |-> "image", alt |-> img_match(line).alt,
                                                    url |-> img_match(line).url]))
             ELSE IF b = "blank"
             THEN ParseAlone(ls, idx + 1, in_code, body, lang, es)
             ELSE IF ParagraphEnd(ls, idx) = idx THEN es
             ELSE ParseAlone(ls, ParagraphEnd(ls, idx), in_code, body, lang,
                      es \o paragraph_elements(SubSeq(ls, idx + 1, ParagraphEnd(ls, idx))))

\* convert run from start to end on its own, every image fetch ending in
\* outcome.
RECURSIVE ConvertAlone(_, _, _)
ConvertAlone(es, k, outcome) ==
    IF k > Len(es) THEN <<>>
    ELSE element_blocks(es[k], outcome) \o ConvertAlone(es, k + 1, outcome)

\* What convert_md_to_docx(content) can return when it runs alone: the saved
\* document for one of the outcomes of its image fetch, or the failure pair.
AloneResults(ls) ==
    {[status |-> 1,
      file_bytes |-> [present |-> TRUE,
                      blocks  |-> ConvertAlone(ParseAlone(ls, 0, FALSE, <<>>, <<>>, <<>>),
                                               1, outcome)]] : outcome \in ImageOutcomes}
    \cup {[status |-> 0, file_bytes |-> NoBytes]}

\* A step leaves alone the frame of every call that is not running it: only
\* the call that runs before and after the step may see its cursor, its
\* elements or its document change.
OnlyOwnFrameTouched ==
    \A c \in CallIds :
        (calls.running # c \/ calls'.running # c) => FrameOf(c)' = FrameOf(c)

\* C16: with the steps of two or more calls of convert_md_to_docx interleaved
\* in any order, each call's parser cursor, element sequence and output
\* document are changed by that call's own steps only, and each call returns
\* a result it returns when run alone on the same content.
C16_CallsAreIsolated ==
    /\ [][OnlyOwnFrameTouched]_vars
    /\ [](\A c \in CallIds :
             FrameOf(c).pc = "returned"
                 => [status |-> FrameOf(c).status, file_bytes |-> FrameOf(c).file_bytes]
                        \in AloneResults(FrameOf(c).tool_parameters.content.lines))

\* The second call has run from its start to its return while the first call
\* was suspended in the middle of parse, one element emitted.
C16_Witness ==
    /\ calls.running = 2
    /\ pc = "returned"
    /\ status = 1
    /\ tool_parameters.content.lines = <<HeaderLine, DashLine, BulletLine>>
    /\ calls.saved[1].pc = "parse"
    /\ calls.saved[1].i = 1
    /\ calls.saved[1].elements =
           <<[type |-> "heading", level |-> 2, content |-> <<"h">>]>>

\* ------------------------------------------------------------------ C17
\* The line is a fence toggle or a valid heading.
PriorityLine(line) == StartsWith(Strip(line), Fence) \/ HeadingShape(line)

\* The step handles the line under the cursor by the fence rule or by the
\* heading rule, and consumes that line only.
HandledByOwnRule ==
    /\ i' = i + 1
    /\ IF StartsWith(Strip(CursorLine), Fence)
       THEN in_code_block' /\ elements' = elements
       ELSE ~in_code_block' /\ elements' = Append(elements, HeadingOf(CursorLine))

TableEmitted ==
    /\ Len(elements') = Len(elements) + 1
    /\ LastElement(elements').type = "table"

\* C17, as stated: outside an open fence, every fence-toggle line and every
\* valid heading line is handled by the fence rule or the heading rule, and
\* is never consumed as a data row of a preceding table, an item of a
\* preceding list or a continuation line of a preceding paragraph.
C17_PriorityOnEveryLine ==
    [][(ParseIteration /\ ~in_code_block)
       => \A s \in i..(i' - 1) :
              PriorityLine(lines[s + 1]) => (s = i /\ HandledByOwnRule)]_vars

\* C17, amended: outside an open fence, a fence-toggle line or a valid
\* heading line is never consumed as an item of a preceding list or as a
\* continuation line of a preceding paragraph: every step that emits no Table
\* and consumes such a line is the fence rule or the heading rule acting on
\* that one line.  A preceding table consumes table-row lines only, so it
\* takes such a line as a data row exactly when it is also a table-row line.
C17_PriorityOutsideTables ==
    /\ [][(ParseIteration /\ ~in_code_block /\ ~TableEmitted)
          => \A s \in i..(i' - 1) :
                 PriorityLine(lines[s + 1]) => (s = i /\ HandledByOwnRule)]_vars
    /\ [][(ParseIteration /\ ~in_code_block /\ TableEmitted)
          => \A s \in i..(i' - 1) : is_table_row(lines[s + 1])]_vars

\* A heading line after a paragraph line and a fence line after a list item
\* were each taken by their own rule.
C17_Witness ==
    /\ pc = "parse"
    /\ lines = <<TextLine, HeadingLine, BulletLine, FenceLine>>
    /\ i = 4
    /\ in_code_block
    /\ Len(elements) = 3
    /\ elements[1].type = "paragraph"
    /\ elements[2] = [type |-> "heading", level |-> 2, content |-> <<"h">>]
    /\ elements[3] = OneList("unordered", <<<<"a">>>>)

\* ------------------------------------------------------------------ C18
\* A step of the loop of convert: the converter stays in the loop.
ConvertIteration == pc = "convert" /\ done_elements < Len(elements) /\ pc' = "convert"

IsParagraph(b) == b.block = "paragraph"

IsEmptyParagraph(b) == b.block = "paragraph" /\ b.runs = <<>>

\* The blocks bs are those of an element of the kind of e.
BlocksOfKind(e, bs) ==
    IF e.type \in {"heading", "paragraph", "code"}
    THEN Len(bs) = 1 /\ IsParagraph(bs[1])
    ELSE IF e.type = "table"
    THEN Len(bs) = 2 /\ bs[1].block = "table" /\ IsEmptyParagraph(bs[2])
    ELSE IF e.type = "list"
    THEN /\ Len(bs) = Len(e.items) + 1
         /\ \A k \in 1..Len(e.items) : IsParagraph(bs[k])
         /\ IsEmptyParagraph(bs[Len(bs)])
    ELSE IF e.type = "image" THEN TRUE
    ELSE bs = <<>>

\* C18: convert takes the elements strictly in input order, one per
\* iteration, and changes none: each iteration appends to the document the
\* blocks of the next element and nothing else (one paragraph for a Heading,
\* a Paragraph or a Code, a grid and one empty paragraph for a Table, one
\* paragraph per item and one empty paragraph for a List); an element of an
\* unknown type is passed over with no block and no exception; the document
\* that is saved is the one built that way from all the elements.
C18_ElementsInOrder ==
    /\ [][ConvertIteration
          => /\ done_elements' = done_elements + 1
             /\ elements' = elements
             /\ DocumentGrows
             /\ BlocksOfKind(RenderedElement, AppendedBlocks)]_vars
    /\ [][(/\ pc = "convert" /\ done_elements < Len(elements)
           /\ RenderedElement.type \notin
                  {"heading", "paragraph", "code", "image", "table", "list"})
          => /\ pc' = "convert"
             /\ document' = document]_vars
    /\ [][(pc = "convert" /\ pc' = "returned" /\ status' = 1)
          => /\ done_elements = Len(elements)
             /\ file_bytes' = [present |-> TRUE, blocks |-> document]]_vars

\* A list of two items, an element of an unknown type and a table have been
\* rendered: three paragraphs, nothing, a grid and an empty paragraph.
C18_Witness ==
    /\ pc = "convert"
    /\ elements = <<BulletList, UnknownElement, RaggedTable>>
    /\ done_elements = 3
    /\ Len(document) = 5
    /\ IsEmptyParagraph(document[3])
    /\ document[4].block = "table"
    /\ IsEmptyParagraph(document[5])

\* ------------------------------------------------------------------ C19
\* The grid g is the one of a table with these headers and data rows: one
\* row more than there are data rows, as many columns as headers, the
\* headers in the first row, and in every other row the cells of its data
\* row up to the last column, the columns past its last cell empty.
GridOf(g, headers, rows) ==
    /\ g.block = "table"
    /\ g.n_rows = 1 + Len(rows)
    /\ g.n_cols = Len(headers)
    /\ DOMAIN g.cells = 1..(1 + Len(rows))
    /\ \A r \in DOMAIN g.cells : DOMAIN g.cells[r] = 1..Len(headers)
    /\ \A c \in 1..Len(headers) : g.cells[1][c] = headers[c]
    /\ \A r \in 1..Len(rows) : \A c \in 1..Len(headers) :
           g.cells[r + 1][c] = IF c <= Len(rows[r]) THEN rows[r][c] ELSE <<>>

\* C19: rendering a Table appends a grid of exactly 1 + (number of data rows)
\* rows and (number of headers) columns and writes nowhere else: a data row
\* shorter than the headers fills its leading cells only, the cells of a data
\* row past the last column are dropped, and exactly one empty paragraph
\* follows the grid.
C19_TableGrid ==
    [][(ConvertIteration /\ RenderedElement.type = "table")
       => /\ DocumentGrows
          /\ Len(AppendedBlocks) = 2
          /\ GridOf(AppendedBlocks[1], RenderedElement.headers, RenderedElement.rows)
          /\ IsEmptyParagraph(AppendedBlocks[2])]_vars

\* The table with a one-cell row and a three-cell row under two headers has
\* been rendered as a grid of three rows and two columns.
C19_Witness ==
    /\ pc = "convert"
    /\ elements = <<RaggedTable>>
    /\ done_elements = 1
    /\ Len(document) = 2
    /\ document[1].n_rows = 3
    /\ document[1].n_cols = 2
    /\ document[1].cells =
           << <<<<"A">>, <<"B">>>>, <<<<"1">>, <<>>>>, <<<<"1">>, <<"2">>>> >>

\* ------------------------------------------------------------------ C20
NoTableRows(ls) == \A k \in 1..Len(ls) : ~is_table_row(ls[k])

FenceLines(ls) == {k \in 1..Len(ls) : is_fence(ls[k])}

CodeElements(es) == {k \in 1..Len(es) : es[k].type = "code"}

\* Without table rows the fences open and close in turn: an odd number of
\* fence lines leaves the last one open.
UnclosedFence(ls) == Cardinality(FenceLines(ls)) % 2 = 1

LastFence(ls) == CHOOSE k \in FenceLines(ls) : \A j \in FenceLines(ls) : j <= k

\* C20: when the parse of a document without table rows has returned, the
\* number of Code elements is the number of fence lines divided by two,
\* rounded down; and if a fence is left open at the end of the input, the
\* elements are exactly those of the lines before that fence parsed on their
\* own: the opening fence and every line after it produce no element.
C20_UnclosedFenceDropped ==
    (ParseFinished /\ NoTableRows(lines))
    => /\ Cardinality(CodeElements(elements)) = Cardinality(FenceLines(lines)) \div 2
       /\ UnclosedFence(lines)
          => elements = ParseAlone(SubSeq(lines, 1, LastFence(lines) - 1),
                                   0, FALSE, <<>>, <<>>, <<>>)

\* A closed code block, then a fence that is never closed and a line of text
\* after it: three fence lines and one Code element, nothing for the text.
C20_Witness ==
    /\ ParseFinished
    /\ lines = <<FenceLine, FenceLine, FenceLine, TextLine>>
    /\ in_code_block
    /\ code_lines = <<TextLine>>
    /\ Len(elements) = 1
    /\ elements[1].type = "code"

\* ------------------------------------------------- the two inline formatters
\* The same text as the content of a paragraph and as the content of a list
\* item: parse formats the paragraph (FormatParagraph), convert renders it
\* with add_paragraph, then renders a one-item list of the same text with
\* add_list, which calls the renderer's own formatter.
RenderParagraph ==
    /\ pc = "inline_done"
    /\ document' = document \o add_paragraph(elements[1].content,
                                              elements[1].formatted_parts)
    /\ pc' = "paragraph_rendered"
    /\ UNCHANGED <<stream_vars, calls, tool_parameters, parser_vars, done_elements, status,
                   file_bytes, pipeline_calls, messages>>

RenderListItem ==
    /\ pc = "paragraph_rendered"
    /\ document' = document
                    \o add_list("unordered",
                                <<[content |-> lines[1], type |-> "unordered"]>>)
    /\ pc' = "item_rendered"
    /\ UNCHANGED <<stream_vars, calls, tool_parameters, parser_vars, done_elements, status,
                   file_bytes, pipeline_calls, messages>>

NextStyle == FormatParagraph \/ RenderParagraph \/ RenderListItem

SpecStyle == InitInline /\ [][NextStyle]_vars

\* ------------------------------------------------------------------ C21
\* C21: the two copies of the inline formatter return the same runs for every
\* text: the parts the parser's copy stored in the paragraph element are the
\* parts the renderer's copy returns for the same text, with the same text,
\* bold and italic values, and a text with at least one character is
\* rendered with the same runs as a paragraph and as a list item.
C21_FormattersAgree ==
    /\ pc \in {"inline_done", "paragraph_rendered", "item_rendered"}
       => converter_parse_inline_formatting(lines[1]) = elements[1].formatted_parts
    /\ (pc = "item_rendered" /\ lines[1] # <<>>)
       => document[2].runs = document[1].runs

\* A text in triple asterisks has been rendered both ways, in one bold italic
\* run each time.
C21_Witness ==
    /\ pc = "item_rendered"
    /\ lines[1] = <<"*", "*", "*", "a", "*", "*", "*">>
    /\ document[1].runs = <<Run(<<"a">>, FONT_SIZE_4, TRUE, TRUE)>>
    /\ document[2].runs = <<Run(<<"a">>, FONT_SIZE_4, TRUE, TRUE)>>

\* ============================================================ llm.py
\* VolNetworkLargeLanguageModel._handle_chat_generate_stream_response and
\* _wrap_thinking_by_reasoning_content.

\* A variant of the wrapper that prepends the closing marker without
\* resetting the flag.
wrap_thinking_by_reasoning_content_keeps_flag(delta, is_reasoning) ==
    IF delta.reasoning_content # <<>>
    THEN IF ~is_reasoning
         THEN [content |-> THINK_OPEN \o delta.reasoning_content, is_reasoning |-> TRUE]
         ELSE [content |-> delta.reasoning_content, is_reasoning |-> TRUE]
    ELSE IF is_reasoning /\ delta.content # <<>>
         THEN [content |-> THINK_CLOSE \o delta.content, is_reasoning |-> TRUE]
         ELSE [content |-> delta.content, is_reasoning |-> is_reasoning]

\* _wrap_thinking_by_reasoning_content(delta, is_reasoning): the pair it
\* returns, as a record.
wrap_thinking_by_reasoning_content(delta, is_reasoning) ==
    IF delta.reasoning_content # <<>>
    THEN IF ~is_reasoning
         THEN [content |-> THINK_OPEN \o delta.reasoning_content, is_reasoning |-> TRUE]
         ELSE [content |-> delta.reasoning_content, is_reasoning |-> TRUE]
    ELSE IF is_reasoning /\ delta.content # <<>>
         THEN [content |-> THINK_CLOSE \o delta.content, is_reasoning |-> FALSE]
         ELSE [content |-> delta.content, is_reasoning |-> is_reasoning]

\* get_num_tokens returns 0 whatever it is given.
get_num_tokens == 0

\* The handler has been called on a stream and stands at the head of its for
\* loop; no conversion is running.
InitStream ==
    /\ tool_parameters = [content |-> [kind |-> "absent", lines |-> <<>>],
                          name    |-> [present |-> FALSE, value |-> <<>>]]
    /\ pc = "idle"
    /\ lines = <<>>
    /\ i = 0
    /\ in_code_block = FALSE
    /\ code_lines = <<>>
    /\ code_lang = <<>>
    /\ elements = <<>>
    /\ iterations = 0
    /\ done_elements = 0
    /\ document = <<>>
    /\ status = -1
    /\ file_bytes = NoBytes
    /\ pipeline_calls = 0
    /\ messages = <<>>
    /\ calls = NoCalls
    /\ stream_pc = "loop"
    /\ response \in Responses
    /\ reference \in References
    /\ chunk_index = 0
    /\ is_reasoning_started = FALSE
    /\ delta_content = <<>>
    /\ full_assistant_content = <<>>
    /\ final_chunk = LLMResultChunk(<<>>, "none", NoUsage)
    /\ prompt_token = 0
    /\ completion_token = 0
    /\ yielded = <<>>

InLoop == stream_pc = "loop" /\ chunk_index < Len(response)

CurrentChunk == response[chunk_index + 1]

\* if len(chunk.choices) == 0: the tokens are read from a usage object that
\* has them, and the loop goes on.
NoChoices ==
    /\ InLoop
    /\ CurrentChunk.choices = 0
    /\ CurrentChunk.usage # "prompt_tokens"
    /\ IF CurrentChunk.usage = "prompt_token"
       THEN /\ prompt_token' = ReportedPromptTokens
            /\ completion_token' = ReportedCompletionTokens
       ELSE UNCHANGED <<prompt_token, completion_token>>
    /\ chunk_index' = chunk_index + 1
    /\ UNCHANGED <<md2docx_vars, stream_pc, response, reference, is_reasoning_started,
                   delta_content, full_assistant_content, final_chunk, yielded>>

\* chunk.usage.prompt_token on the usage object of the OpenAI client, which
\* has no such attribute: the AttributeError ends the generator.
UsageRaise ==
    /\ InLoop
    /\ CurrentChunk.choices = 0
    /\ CurrentChunk.usage = "prompt_tokens"
    /\ stream_pc' = "raised"
    /\ UNCHANGED <<md2docx_vars, response, reference, chunk_index, is_reasoning_started,
                   delta_content, full_assistant_content, final_chunk, prompt_token,
                   completion_token, yielded>>

\* The chunk yielded for chunk.references when reference != 0.
reference_chunks(chunk) ==
    IF chunk.references /\ reference # "int 0"
    THEN <<LLMResultChunk(IF reference = "1" THEN <<"@@@", "references", "@@@">>
                          ELSE IF reference = "2" THEN <<"@@@", "1", "@@@">>
                          ELSE <<>>,
                          "none", NoUsage)>>
    ELSE <<>>

Wrapped == wrap_thinking_by_reasoning_content(CurrentChunk, is_reasoning_started)

\* The condition of the continue at llm.py:380-385.
NothingToEmit ==
    /\ CurrentChunk.finish_reason = "none"
    /\ CurrentChunk.content = <<>>
    /\ ~CurrentChunk.function_call
    /\ Wrapped.content = <<>>

\* What every iteration on a chunk with a choice does first.
TakeDelta ==
    /\ InLoop
    /\ CurrentChunk.choices = 1
    /\ delta_content' = Wrapped.content
    /\ is_reasoning_started' = Wrapped.is_reasoning
    /\ chunk_index' = chunk_index + 1
    /\ UNCHANGED <<md2docx_vars, stream_pc, response, reference, prompt_token,
                   completion_token>>

SkipDelta ==
    /\ TakeDelta
    /\ NothingToEmit
    /\ yielded' = yielded \o reference_chunks(CurrentChunk)
    /\ UNCHANGED <<full_assistant_content, final_chunk>>

WithholdFinish ==
    /\ TakeDelta
    /\ ~NothingToEmit
    /\ CurrentChunk.finish_reason # "none"
    /\ full_assistant_content' = full_assistant_content \o CurrentChunk.content
    /\ final_chunk' = LLMResultChunk(Wrapped.content, CurrentChunk.finish_reason, NoUsage)
    /\ yielded' = yielded \o reference_chunks(CurrentChunk)

YieldDelta ==
    /\ TakeDelta
    /\ ~NothingToEmit
    /\ CurrentChunk.finish_reason = "none"
    /\ full_assistant_content' = full_assistant_content \o CurrentChunk.content
    /\ yielded' = yielded \o reference_chunks(CurrentChunk)
                   \o <<LLMResultChunk(Wrapped.content, "none", NoUsage)>>
    /\ UNCHANGED final_chunk

\* After the loop: the token counts, the usage, and the final chunk.
EndOfStream ==
    /\ stream_pc = "loop"
    /\ chunk_index = Len(response)
    /\ prompt_token' = IF prompt_token = 0 THEN get_num_tokens ELSE prompt_token
    /\ completion_token' = IF completion_token = 0 THEN get_num_tokens
                           ELSE completion_token
    /\ final_chunk' = [final_chunk EXCEPT
                          !.usage = [present |-> TRUE,
                                     prompt_tokens |-> prompt_token',
                                     completion_tokens |-> completion_token']]
    /\ yielded' = Append(yielded, final_chunk')
    /\ stream_pc' = "done"
    /\ UNCHANGED <<md2docx_vars, response, reference, chunk_index, is_reasoning_started,
                   delta_content, full_assistant_content>>

NextStream ==
    \/ NoChoices
    \/ UsageRaise
    \/ SkipDelta
    \/ WithholdFinish
    \/ YieldDelta
    \/ EndOfStream

SpecStream == InitStream /\ [][NextStream]_vars

\* ------------------------------------------------------------------ C22
\* The for loop takes a chunk that has a choice: its delta goes through
\* _wrap_thinking_by_reasoning_content with the flag as it stands.
DeltaProcessed ==
    /\ InLoop
    /\ CurrentChunk.choices = 1
    /\ chunk_index' = chunk_index + 1

CarriesReasoning(chunk) == chunk.choices = 1 /\ chunk.reasoning_content # <<>>

CarriesContentOnly(chunk) ==
    chunk.choices = 1 /\ chunk.reasoning_content = <<>> /\ chunk.content # <<>>

OpeningPrepended == StartsWith(delta_content', THINK_OPEN)

ClosingPrepended == StartsWith(delta_content', THINK_CLOSE)

\* Among the deltas taken so far, the last one that carries reasoning content
\* or content alone carries reasoning content.
InsideThinking ==
    \E j \in 1..chunk_index :
        /\ CarriesReasoning(response[j])
        /\ \A m \in (j + 1)..chunk_index : ~CarriesContentOnly(response[m])

\* C22: over the deltas of a stream, with the flag threaded from one to the
\* next, the think markers are well nested: the flag is false at the start
\* and is true exactly when the last delta with reasoning content has not
\* yet been followed by a delta with content and no reasoning content; the
\* opening marker is prepended exactly to a delta with reasoning content
\* met while the flag is false, before that reasoning content; the closing
\* marker is prepended exactly to a delta with content and no reasoning
\* content met while the flag is true, before that content; an opening sets
\* the flag, a closing clears it, and nothing else changes it, so openings
\* and closings alternate, an opening first.
C22_ThinkMarkersNested ==
    /\ [](stream_pc # "idle" => (is_reasoning_started <=> InsideThinking))
    /\ [][DeltaProcessed
          => /\ OpeningPrepended
                  <=> (CarriesReasoning(CurrentChunk) /\ ~is_reasoning_started)
             /\ OpeningPrepended
                  => delta_content' = THINK_OPEN \o CurrentChunk.reasoning_content
             /\ ClosingPrepended
                  <=> (CarriesContentOnly(CurrentChunk) /\ is_reasoning_started)
             /\ ClosingPrepended
                  => delta_content' = THINK_CLOSE \o CurrentChunk.content
             /\ OpeningPrepended => (~is_reasoning_started /\ is_reasoning_started')
             /\ ClosingPrepended => (is_reasoning_started /\ ~is_reasoning_started')
             /\ (~OpeningPrepended /\ ~ClosingPrepended)
                  => is_reasoning_started' = is_reasoning_started]_vars
    /\ [][~DeltaProcessed => is_reasoning_started' = is_reasoning_started]_vars

\* Two deltas of reasoning and then a delta of content have been yielded:
\* the first opens, the second carries no marker, the third closes.
C22_Witness ==
    /\ response = <<ReasoningDelta, ReasoningDelta, ContentDelta>>
    /\ chunk_index = 3
    /\ ~is_reasoning_started
    /\ Len(yielded) = 3
    /\ yielded[1].content = THINK_OPEN \o <<"r">>
    /\ yielded[2].content = <<"r">>
    /\ yielded[3].content = THINK_CLOSE \o <<"c">>

\* ------------------------------------------------------------------ C23
\* The generator has ended, by returning or by an exception.
StreamEnded == stream_pc \in {"done", "raised"}

ContentTokens == {"b", "c", "d", "e"}

\* Number of times the token x occurs in the contents of the chunks.
Occurrences(chunks, x) ==
    Cardinality({kp \in UNION {{<<k, p>> : p \in 1..Len(chunks[k].content)} :
                                  k \in 1..Len(chunks)} :
                    chunks[kp[1]].content[kp[2]] = x})

HasFinishReason(chunk) == chunk.choices = 1 /\ chunk.finish_reason # "none"

\* C23: for any upstream chunk sequence the handler ends by yielding exactly
\* one final chunk, the last item it yields, and that chunk carries the usage;
\* a chunk with a finish_reason is not emitted on arrival and comes out as
\* that final chunk; what has been emitted stays emitted in the order of
\* arrival, before the final chunk; and the content of every upstream delta
\* with non-empty content is in exactly one emitted chunk.
C23_OneFinalChunk ==
    /\ [](StreamEnded
          => /\ stream_pc = "done"
             /\ yielded # <<>>
             /\ yielded[Len(yielded)].usage.present
             /\ \A k \in 1..(Len(yielded) - 1) :
                    ~yielded[k].usage.present /\ yielded[k].finish_reason = "none"
             /\ (\E k \in 1..Len(response) : HasFinishReason(response[k]))
                    => yielded[Len(yielded)].finish_reason # "none"
             /\ \A x \in ContentTokens :
                    Occurrences(yielded, x) = Occurrences(response, x))
    /\ [][/\ Len(yielded') >= Len(yielded)
          /\ SubSeq(yielded', 1, Len(yielded)) = yielded
          /\ (DeltaProcessed /\ HasFinishReason(CurrentChunk))
                => \A k \in (Len(yielded) + 1)..Len(yielded') :
                       yielded'[k].finish_reason = "none"]_vars

====
